---- MODULE Spec2Model ----
(***************************************************************************)
(* Channel key management and signing: KeysManager (the KeyRoot),          *)
(* InMemoryChannelKeys (the ChannelSigner) and SpendableOutputDescriptor,  *)
(* as implemented in lightning/src/chain/keysinterface.rs.                 *)
(*                                                                         *)
(* Representation.                                                         *)
(*  - u64 and usize values are four 16-bit limbs, most significant first;  *)
(*    u32 values are two limbs, u16 values one.  Shifts, masks, casts and  *)
(*    wrapping additions keep the widths of the Rust types.               *)
(*  - byte strings are sequences of naturals.  SHA-256, BIP-32 derivation, *)
(*    public-key derivation and signing are terms over their inputs:      *)
(*    equal exactly when the inputs are equal.                            *)
(*  - Option<T> is a sequence of length 0 (None) or 1 (Some).             *)
(***************************************************************************)
EXTENDS Integers, Sequences, FiniteSets, TLC

\* ---------------------------------------------------------------- bounds
MaxCalls == 3
MaxThreads == 2
MaxAllocs == 2
MaxHtlcs == 2
MaxInputs == 2
MaxOutputs == 3

\* ------------------------------------------------------- machine integers
LimbBase == 2^16
LimbMax == LimbBase - 1

RECURSIVE BitOr16(_, _)
BitOr16(a, b) ==
    IF a = 0 THEN b
    ELSE IF b = 0 THEN a
    ELSE (IF a % 2 = 1 \/ b % 2 = 1 THEN 1 ELSE 0) + 2 * BitOr16(a \div 2, b \div 2)

RECURSIVE BitAnd16(_, _)
BitAnd16(a, b) ==
    IF a = 0 \/ b = 0 THEN 0
    ELSE IF a = LimbMax THEN b
    ELSE IF b = LimbMax THEN a
    ELSE (IF a % 2 = 1 /\ b % 2 = 1 THEN 1 ELSE 0) + 2 * BitAnd16(a \div 2, b \div 2)

\* x | y on u64
U64BitOr(x, y) == [i \in 1..4 |-> BitOr16(x[i], y[i])]
\* x & y on u64
U64BitAnd(x, y) == [i \in 1..4 |-> BitAnd16(x[i], y[i])]
\* x << 32 on u64: the high 32 bits fall off
U64Shl32(x) == <<x[3], x[4], 0, 0>>
\* x >> 32 on u64
U64Shr32(x) == <<0, 0, x[1], x[2]>>
\* x as u32, from u64 or usize: truncation to the low 32 bits
AsU32(x) == <<x[3], x[4]>>
\* x as u64, from u32: zero extension
U32AsU64(x) == <<0, 0, x[1], x[2]>>
\* x as u64, from usize (a 64-bit word)
UsizeAsU64(x) == x
\* the u64 of a small natural
U64Of(n) == <<0, 0, n \div LimbBase, n % LimbBase>>
U32Of(n) == <<n \div LimbBase, n % LimbBase>>
\* x.wrapping_add(1) on a 64-bit word
WrappingInc(x) ==
    IF x[4] < LimbMax THEN <<x[1], x[2], x[3], x[4] + 1>>
    ELSE IF x[3] < LimbMax THEN <<x[1], x[2], x[3] + 1, 0>>
    ELSE IF x[2] < LimbMax THEN <<x[1], x[2] + 1, 0, 0>>
    ELSE IF x[1] < LimbMax THEN <<x[1] + 1, 0, 0, 0>>
    ELSE <<0, 0, 0, 0>>

HighMask == <<LimbMax, LimbMax, 0, 0>>

\* ------------------------------------------------------------ byte strings
LimbBytes(w) == <<w \div 256, w % 256>>
be64_to_array(x) == LimbBytes(x[1]) \o LimbBytes(x[2]) \o LimbBytes(x[3]) \o LimbBytes(x[4])
be32_to_array(x) == LimbBytes(x[1]) \o LimbBytes(x[2])

\* Sha256::engine(), engine.input(bytes), Sha256::from_engine(engine).into_inner():
\* an engine is the sequence of the chunks it was given and a digest is a term over
\* its preimage, so that two digests are equal exactly when their preimages are
Sha256_engine == <<>>
input(engine, bytes) == Append(engine, bytes)
Sha256_from_engine(engine) == engine

\* SecretKey::from_slice(..).expect(..): the digests are valid scalars
SecretKey_from_slice(bytes) == bytes
\* PublicKey::from_secret_key(secp_ctx, s): a term over the secret
PublicKey_from_secret_key(s) == <<s>>

\* ExtendedPrivKey::new_master(network, seed): the key does not depend on network
new_master(network, seed) == <<seed>>
\* ChildNumber::from_hardened_idx(idx): Err when bit 31 of idx is set
from_hardened_idx(idx) == IF idx[1] < 2^15 THEN <<idx>> ELSE <<>>
\* ExtendedPrivKey::ckd_priv(secp_ctx, ChildNumber::Hardened{index})
ckd_priv(key, index) == <<key, be32_to_array(<<index[1] + 2^15, index[2]>>)>>

\* -------------------------------------------------------------- labels
LabelCommitmentSeed == <<99, 111, 109, 109, 105, 116, 109, 101, 110, 116, 32, 115, 101, 101, 100>>
LabelFundingKey == <<102, 117, 110, 100, 105, 110, 103, 32, 107, 101, 121>>
LabelRevocationBaseKey == <<114, 101, 118, 111, 99, 97, 116, 105, 111, 110, 32, 98, 97, 115, 101, 32, 107, 101, 121>>
LabelPaymentKey == <<112, 97, 121, 109, 101, 110, 116, 32, 107, 101, 121>>
LabelDelayedPaymentBaseKey == <<100, 101, 108, 97, 121, 101, 100, 32, 112, 97, 121, 109, 101, 110, 116, 32, 98, 97, 115, 101, 32, 107, 101, 121>>
LabelHtlcBaseKey == <<72, 84, 76, 67, 32, 98, 97, 115, 101, 32, 107, 101, 121>>
LabelRngSeedSalt == <<82, 78, 71, 32, 83, 101, 101, 100, 32, 83, 97, 108, 116>>
LabelSessionKeySalt == <<83, 101, 115, 115, 105, 111, 110, 32, 75, 101, 121, 32, 83, 97, 108, 116>>

\* ------------------------------------------------------ InMemoryChannelKeys
None == <<>>
Some(v) == <<v>>
IsSome(o) == Len(o) = 1
IsNone(o) == Len(o) = 0

make_local_keys(funding_key, revocation_base_key, payment_key, delayed_payment_base_key, htlc_base_key) ==
    [ funding_pubkey            |-> PublicKey_from_secret_key(funding_key),
      revocation_basepoint      |-> PublicKey_from_secret_key(revocation_base_key),
      payment_point             |-> PublicKey_from_secret_key(payment_key),
      delayed_payment_basepoint |-> PublicKey_from_secret_key(delayed_payment_base_key),
      htlc_basepoint            |-> PublicKey_from_secret_key(htlc_base_key) ]

InMemoryChannelKeys_new(funding_key, revocation_base_key, payment_key, delayed_payment_base_key, htlc_base_key, commitment_seed, channel_value_satoshis, key_derivation_params) ==
    [ funding_key              |-> funding_key,
      revocation_base_key      |-> revocation_base_key,
      payment_key              |-> payment_key,
      delayed_payment_base_key |-> delayed_payment_base_key,
      htlc_base_key            |-> htlc_base_key,
      commitment_seed          |-> commitment_seed,
      channel_value_satoshis   |-> channel_value_satoshis,
      local_channel_pubkeys    |-> make_local_keys(funding_key, revocation_base_key, payment_key,
                                                   delayed_payment_base_key, htlc_base_key),
      remote_channel_pubkeys   |-> None,
      key_derivation_params    |-> key_derivation_params ]

\* ---------------------------------------------------------------- KeysManager
\* KeysManager::new(seed, network, starting_time_secs, starting_time_nanos)
KeysManager_new(seed, network, starting_time_secs, starting_time_nanos) ==
    LET master_key == new_master(network, seed) IN
    [ node_secret            |-> ckd_priv(master_key, U32Of(0)),
      destination_script     |-> <<PublicKey_from_secret_key(ckd_priv(master_key, U32Of(1)))>>,
      shutdown_pubkey        |-> PublicKey_from_secret_key(ckd_priv(master_key, U32Of(2))),
      channel_master_key     |-> ckd_priv(master_key, U32Of(3)),
      channel_child_index    |-> U64Of(0),
      session_master_key     |-> ckd_priv(master_key, U32Of(4)),
      session_child_index    |-> U64Of(0),
      channel_id_master_key  |-> ckd_priv(master_key, U32Of(5)),
      channel_id_child_index |-> U64Of(0),
      seed                   |-> seed,
      starting_time_secs     |-> starting_time_secs,
      starting_time_nanos    |-> starting_time_nanos ]

\* KeysManager::derive_unique_start
derive_unique_start(self) ==
    input(input(input(Sha256_engine, be64_to_array(self.starting_time_secs)),
                be32_to_array(self.starting_time_nanos)),
          self.seed)

\* the key_step! macro of derive_channel_keys
key_step(seed, info, prev_key) ==
    SecretKey_from_slice(Sha256_from_engine(input(input(input(Sha256_engine, seed), prev_key), info)))

\* a chan_id taken from the low 32 bits of params_1
chan_id_of_low(params_1) == AsU32(params_1)

\* chan_id of derive_channel_keys
chan_id_of(params_1) == AsU32(U64Shr32(U64BitAnd(params_1, HighMask)))

\* a derivation that hashes the root's own starting time in place of the parameters
unique_start_of_root(self, params_1, params_2) ==
    input(input(input(Sha256_engine, be64_to_array(self.starting_time_secs)),
                be32_to_array(self.starting_time_nanos)),
          self.seed)

\* unique_start of derive_channel_keys
unique_start_of(self, params_1, params_2) ==
    input(input(input(Sha256_engine, be64_to_array(params_2)),
                be32_to_array(AsU32(params_1))),
          self.seed)

\* a derivation that takes the child index from the root's counter
child_privkey_at_counter(self, chan_id) ==
    LET child_number == from_hardened_idx(AsU32(self.channel_child_index))
    IN  IF IsNone(child_number) THEN None
        ELSE Some(ckd_priv(self.channel_master_key, child_number[1]))

\* child_privkey of derive_channel_keys: <<>> when from_hardened_idx(chan_id) fails
\* and the expect panics with "key space exhausted"
child_privkey_of(self, chan_id) ==
    LET child_number == from_hardened_idx(chan_id)
    IN  IF IsNone(child_number) THEN None
        ELSE Some(ckd_priv(self.channel_master_key, child_number[1]))

\* KeysManager::derive_channel_keys: <<>> when the call panics, else <<signer>>
derive_channel_keys(self, channel_value_satoshis, params_1, params_2) ==
    LET chan_id == chan_id_of(params_1)
        unique_start == unique_start_of(self, params_1, params_2)
        child_privkey == child_privkey_of(self, chan_id)
    IN  IF IsNone(child_privkey) THEN None
        ELSE
        LET seed == Sha256_from_engine(input(unique_start, child_privkey[1]))
            commitment_seed == Sha256_from_engine(input(input(Sha256_engine, seed), LabelCommitmentSeed))
            funding_key == key_step(seed, LabelFundingKey, commitment_seed)
            revocation_base_key == key_step(seed, LabelRevocationBaseKey, funding_key)
            payment_key == key_step(seed, LabelPaymentKey, revocation_base_key)
            delayed_payment_base_key == key_step(seed, LabelDelayedPaymentBaseKey, payment_key)
            htlc_base_key == key_step(seed, LabelHtlcBaseKey, delayed_payment_base_key)
        IN  Some(InMemoryChannelKeys_new(funding_key, revocation_base_key, payment_key,
                                         delayed_payment_base_key, htlc_base_key, commitment_seed,
                                         channel_value_satoshis, <<params_1, params_2>>))

\* a fetch_add whose store is lost
fetch_add_lost(counter) == counter

\* a fetch_add of 2
fetch_add_two(counter) == WrappingInc(WrappingInc(counter))

\* AtomicUsize::fetch_add(1, Ordering::AcqRel): the value stored; the value returned
\* to the caller is the one read
fetch_add(counter) == WrappingInc(counter)

\* an ix_and_nanos without the nanoseconds
ix_only(self, child_ix) == U64Shl32(UsizeAsU64(child_ix))

\* ix_and_nanos of get_channel_keys
ix_and_nanos_of(self, child_ix) ==
    U64BitOr(U64Shl32(UsizeAsU64(child_ix)), U32AsU64(self.starting_time_nanos))

\* a get_channel_keys that mixes the inbound flag into params_2
get_channel_keys_by_direction(self, inbound, channel_value_satoshis, child_ix) ==
    derive_channel_keys(self, channel_value_satoshis, ix_and_nanos_of(self, child_ix),
                        IF inbound THEN WrappingInc(self.starting_time_secs)
                        ELSE self.starting_time_secs)

\* KeysManager::get_channel_keys after the fetch_add returned child_ix
get_channel_keys(self, inbound, channel_value_satoshis, child_ix) ==
    derive_channel_keys(self, channel_value_satoshis, ix_and_nanos_of(self, child_ix),
                        self.starting_time_secs)

\* KeysManager::get_onion_rand after the fetch_add returned child_ix: <<>> when
\* from_hardened_idx panics, else <<[session_key, rng_seed]>>
get_onion_rand(self, child_ix) ==
    LET sha0 == derive_unique_start(self)
        child_number == from_hardened_idx(AsU32(child_ix))
    IN  IF IsNone(child_number) THEN None
        ELSE
        LET child_privkey == ckd_priv(self.session_master_key, child_number[1])
            sha == input(sha0, child_privkey)
            rng_seed == input(sha, LabelRngSeedSalt)
        IN  Some([ session_key |-> SecretKey_from_slice(Sha256_from_engine(input(sha, LabelSessionKeySalt))),
                   rng_seed    |-> Sha256_from_engine(rng_seed) ])

\* KeysManager::get_channel_id after the fetch_add returned child_ix
get_channel_id(self, child_ix) ==
    LET sha0 == derive_unique_start(self)
        child_number == from_hardened_idx(AsU32(child_ix))
    IN  IF IsNone(child_number) THEN None
        ELSE Some(Sha256_from_engine(input(sha0, ckd_priv(self.channel_id_master_key, child_number[1]))))

\* KeysManager::get_node_secret, get_destination_script, get_shutdown_pubkey: clones of
\* the fields set by KeysManager::new
get_node_secret(self) == self.node_secret
get_destination_script(self) == self.destination_script
get_shutdown_pubkey(self) == self.shutdown_pubkey

\* ================================================================ state
VARIABLES
    roots,        \* the KeysManager instances built from one seed (a run and its restart)
    callers,      \* calls between their fetch_add and their return
    calls,        \* number of calls made one by one so far (also the id of the next call)
    minted,       \* results of the get_channel_keys calls
    sessions,     \* results of the get_onion_rand calls
    channel_ids,  \* results of the get_channel_id calls
    derived,      \* results of the derive_channel_keys calls
    signer,       \* the InMemoryChannelKeys a channel owns
    last,         \* the last ChannelKeys operation on signer and its outcome
    local_sigs,   \* per local commitment transaction: what the first sign_local_commitment
                  \* call on the signer with remote pubkeys returned, and whether there
                  \* was another
    codec,        \* a SpendableOutputDescriptor on its way through write and read
    observed      \* results of the get_node_secret, get_destination_script and
                  \* get_shutdown_pubkey calls

vars == <<roots, callers, calls, minted, sessions, channel_ids, derived, signer, last, local_sigs, codec, observed>>
rootVars == <<roots, callers, calls, minted, sessions, channel_ids, derived>>
signerVars == <<signer, last, local_sigs>>
codecVars == <<codec>>

\* ------------------------------------------------------------- input sets
SeedCount == [i \in 1..32 |-> i]
FirstNonce == [secs |-> U64Of(1), nanos |-> U32Of(7)]
Nonces == { FirstNonce,
            [secs |-> U64Of(2), nanos |-> U32Of(7)],
            [secs |-> U64Of(1), nanos |-> U32Of(8)] }
FirstValue == U64Of(1000)
ChannelValues == { FirstValue, <<0, 1, 0, 0>> }
RootIds == {1, 2}
\* a derivation parameter pair no get_channel_keys call of the model hands out
ForeignParams == << <<0, 1, 57005, 48879>>, <<4660, 22136, 37035, 52719>> >>

\* ============================================================ KeyRoot: Spec
NoSigner == [ dummy |-> 0 ]
NoLast == [ op |-> "none" ]
NoSigs == <<>>
NoCodec == [ step |-> "none" ]

\* one KeysManager, shared by the threads of the node
Init ==
    /\ roots = [ r \in {1} |-> KeysManager_new(SeedCount, "bitcoin", FirstNonce.secs, FirstNonce.nanos) ]
    /\ callers = {}
    /\ calls = 0
    /\ minted = {}
    /\ sessions = {}
    /\ channel_ids = {}
    /\ derived = <<>>
    /\ signer = NoSigner
    /\ local_sigs = NoSigs
    /\ last = NoLast
    /\ codec = NoCodec
    /\ observed = {}

\* get_channel_keys, line 748: the fetch_add on channel_child_index
GetChannelKeysAlloc(r, inbound, v) ==
    /\ calls < MaxCalls
    /\ Cardinality(callers) < MaxThreads
    /\ callers' = callers \cup { [ id |-> calls, op |-> "get_channel_keys", root |-> r,
                                   inbound |-> inbound, value |-> v,
                                   child_ix |-> roots[r].channel_child_index ] }
    /\ roots' = [roots EXCEPT ![r].channel_child_index = fetch_add(@)]
    /\ calls' = calls + 1
    /\ UNCHANGED <<minted, sessions, channel_ids, derived, signerVars, codecVars, observed>>

\* get_channel_keys, lines 749-750: the derivation and the return (or the panic)
GetChannelKeysReturn(c) ==
    /\ c.op = "get_channel_keys"
    /\ minted' = minted \cup { [ id |-> c.id, root |-> c.root, child_ix |-> c.child_ix,
                                 inbound |-> c.inbound, value |-> c.value,
                                 overtook |-> \E d \in callers : d.id < c.id,
                                 result |-> get_channel_keys(roots[c.root], c.inbound, c.value, c.child_ix) ] }
    /\ callers' = callers \ {c}
    /\ UNCHANGED <<roots, calls, sessions, channel_ids, derived, signerVars, codecVars, observed>>

\* a get_onion_rand that allocates from channel_child_index
GetOnionRandAllocShared(r) ==
    /\ calls < MaxCalls
    /\ Cardinality(callers) < MaxThreads
    /\ callers' = callers \cup { [ id |-> calls, op |-> "get_onion_rand", root |-> r,
                                   inbound |-> FALSE, value |-> U64Of(0),
                                   child_ix |-> roots[r].channel_child_index ] }
    /\ roots' = [roots EXCEPT ![r].channel_child_index = fetch_add(@)]
    /\ calls' = calls + 1
    /\ UNCHANGED <<minted, sessions, channel_ids, derived, signerVars, codecVars, observed>>

\* get_onion_rand, lines 754-756: the fetch_add on session_child_index
GetOnionRandAlloc(r) ==
    /\ calls < MaxCalls
    /\ Cardinality(callers) < MaxThreads
    /\ callers' = callers \cup { [ id |-> calls, op |-> "get_onion_rand", root |-> r,
                                   inbound |-> FALSE, value |-> U64Of(0),
                                   child_ix |-> roots[r].session_child_index ] }
    /\ roots' = [roots EXCEPT ![r].session_child_index = fetch_add(@)]
    /\ calls' = calls + 1
    /\ UNCHANGED <<minted, sessions, channel_ids, derived, signerVars, codecVars, observed>>

\* get_onion_rand, lines 757-766
GetOnionRandReturn(c) ==
    /\ c.op = "get_onion_rand"
    /\ sessions' = sessions \cup { [ id |-> c.id, root |-> c.root, child_ix |-> c.child_ix,
                                     result |-> get_onion_rand(roots[c.root], c.child_ix) ] }
    /\ callers' = callers \ {c}
    /\ UNCHANGED <<roots, calls, minted, channel_ids, derived, signerVars, codecVars, observed>>

\* get_channel_id, lines 770-772: the fetch_add on channel_id_child_index
GetChannelIdAlloc(r) ==
    /\ calls < MaxCalls
    /\ Cardinality(callers) < MaxThreads
    /\ callers' = callers \cup { [ id |-> calls, op |-> "get_channel_id", root |-> r,
                                   inbound |-> FALSE, value |-> U64Of(0),
                                   child_ix |-> roots[r].channel_id_child_index ] }
    /\ roots' = [roots EXCEPT ![r].channel_id_child_index = fetch_add(@)]
    /\ calls' = calls + 1
    /\ UNCHANGED <<minted, sessions, channel_ids, derived, signerVars, codecVars, observed>>

\* get_channel_id, lines 773-776
GetChannelIdReturn(c) ==
    /\ c.op = "get_channel_id"
    /\ channel_ids' = channel_ids \cup { [ id |-> c.id, root |-> c.root, child_ix |-> c.child_ix,
                                           result |-> get_channel_id(roots[c.root], c.child_ix) ] }
    /\ callers' = callers \ {c}
    /\ UNCHANGED <<roots, calls, minted, sessions, derived, signerVars, codecVars, observed>>

\* get_node_secret, get_destination_script or get_shutdown_pubkey: one read of &self
GetConstant(r, getter) ==
    /\ calls < MaxCalls
    /\ observed' = observed \cup
          { [ id |-> calls, root |-> r, getter |-> getter,
              result |-> IF getter = "get_node_secret" THEN <<get_node_secret(roots[r])>>
                         ELSE IF getter = "get_destination_script"
                         THEN <<get_destination_script(roots[r])>>
                         ELSE <<get_shutdown_pubkey(roots[r])>> ] }
    /\ calls' = calls + 1
    /\ UNCHANGED <<roots, callers, minted, sessions, channel_ids, derived, signerVars, codecVars>>

Next ==
    \/ \E r \in DOMAIN roots, inbound \in BOOLEAN, v \in ChannelValues : GetChannelKeysAlloc(r, inbound, v)
    \/ \E c \in callers : GetChannelKeysReturn(c)
    \/ \E r \in DOMAIN roots : GetOnionRandAlloc(r)
    \/ \E c \in callers : GetOnionRandReturn(c)
    \/ \E r \in DOMAIN roots : GetChannelIdAlloc(r)
    \/ \E c \in callers : GetChannelIdReturn(c)
    \/ \E r \in DOMAIN roots,
          getter \in { "get_node_secret", "get_destination_script", "get_shutdown_pubkey" } :
          GetConstant(r, getter)

Spec == Init /\ [][Next]_vars

\* ================================================== re-derivation: SpecDerive
\* A KeysManager (root 1) and a second instance built from the same seed (root 2, a
\* restart or a wallet), with the same or another starting time.  One caller at a
\* time: each call is one step.
InitDerive ==
    /\ \E nonce \in Nonces :
          roots = [ r \in RootIds |->
                      IF r = 1
                      THEN KeysManager_new(SeedCount, "bitcoin", FirstNonce.secs, FirstNonce.nanos)
                      ELSE KeysManager_new(SeedCount, "bitcoin", nonce.secs, nonce.nanos) ]
    /\ callers = {}
    /\ calls = 0
    /\ minted = {}
    /\ sessions = {}
    /\ channel_ids = {}
    /\ derived = <<>>
    /\ signer = NoSigner
    /\ local_sigs = NoSigs
    /\ last = NoLast
    /\ codec = NoCodec
    /\ observed = {}

\* the whole of get_channel_keys (lines 747-751)
GetChannelKeys(r, inbound, v) ==
    /\ calls < MaxAllocs
    /\ roots' = [roots EXCEPT ![r].channel_child_index = fetch_add(@)]
    /\ minted' = minted \cup { [ root |-> r, child_ix |-> roots[r].channel_child_index,
                                 inbound |-> inbound, value |-> v,
                                 result |-> get_channel_keys(roots[r], inbound, v,
                                                             roots[r].channel_child_index) ] }
    /\ calls' = calls + 1
    /\ UNCHANGED <<callers, sessions, channel_ids, derived, signerVars, codecVars, observed>>

\* the whole of get_onion_rand (lines 753-767)
GetOnionRand(r) ==
    /\ calls < MaxAllocs
    /\ roots' = [roots EXCEPT ![r].session_child_index = fetch_add(@)]
    /\ sessions' = sessions \cup { [ root |-> r, child_ix |-> roots[r].session_child_index,
                                     result |-> get_onion_rand(roots[r], roots[r].session_child_index) ] }
    /\ calls' = calls + 1
    /\ UNCHANGED <<callers, minted, channel_ids, derived, signerVars, codecVars, observed>>

\* the whole of get_channel_id (lines 769-777)
GetChannelId(r) ==
    /\ calls < MaxAllocs
    /\ roots' = [roots EXCEPT ![r].channel_id_child_index = fetch_add(@)]
    /\ channel_ids' = channel_ids \cup { [ root |-> r, child_ix |-> roots[r].channel_id_child_index,
                                           result |-> get_channel_id(roots[r], roots[r].channel_id_child_index) ] }
    /\ calls' = calls + 1
    /\ UNCHANGED <<callers, minted, sessions, derived, signerVars, codecVars, observed>>

\* the derivation parameters a wallet may hand to derive_channel_keys: those of the
\* signers minted so far (echoed back in a SpendableOutputDescriptor), or foreign ones
KnownParams ==
    { e.result[1].key_derivation_params : e \in { m \in minted : IsSome(m.result) } }
        \cup { ForeignParams }

\* derive_channel_keys(channel_value_satoshis, params_1, params_2) on root r: takes
\* &self and touches no counter, so the whole call is one step.  The record keeps
\* the arguments, the number of allocations made before the call and the result.
DeriveCall(r, v, params) ==
    [ root |-> r, value |-> v, params |-> params, at |-> calls,
      result |-> derive_channel_keys(roots[r], v, params[1], params[2]) ]

\* a first call of derive_channel_keys
DeriveChannelKeys(r, v, params) ==
    /\ derived = <<>>
    /\ derived' = << DeriveCall(r, v, params) >>
    /\ UNCHANGED <<roots, callers, calls, minted, sessions, channel_ids, signerVars, codecVars, observed>>

\* the same call made again, later
DeriveChannelKeysAgain ==
    /\ Len(derived) >= 1
    /\ derived' = << derived[1], DeriveCall(derived[1].root, derived[1].value, derived[1].params) >>
    /\ UNCHANGED <<roots, callers, calls, minted, sessions, channel_ids, signerVars, codecVars, observed>>

NextRestart ==
    \/ \E r \in RootIds, inbound \in BOOLEAN, v \in ChannelValues : GetChannelKeys(r, inbound, v)
    \/ \E r \in RootIds : GetOnionRand(r)
    \/ \E r \in RootIds : GetChannelId(r)

SpecRestart == InitDerive /\ [][NextRestart]_vars

NextDerive ==
    \/ \E r \in RootIds : GetChannelKeys(r, TRUE, FirstValue)
    \/ \E r \in RootIds : GetOnionRand(r)
    \/ \E r \in RootIds : GetChannelId(r)
    \/ \E r \in RootIds, v \in ChannelValues, params \in KnownParams : DeriveChannelKeys(r, v, params)
    \/ DeriveChannelKeysAgain

SpecDerive == InitDerive /\ [][NextDerive]_vars

\* ------------------------------------------------------ KeyRoot: properties
Minted == { m \in minted : IsSome(m.result) }
ParamsOf(m) == m.result[1].key_derivation_params

\* C4: the signers returned by concurrent get_channel_keys calls on one KeysManager
\* have pairwise distinct key_derivation_params; the high 32 bits of params_1 are
\* the value the call read from channel_child_index, the low 32 bits are
\* starting_time_nanos and params_2 is starting_time_secs.
C4_CounterUniqueness ==
    /\ \A m \in minted :
          /\ IsSome(m.result)
          /\ U64Shr32(ParamsOf(m)[1]) = m.child_ix
          /\ AsU32(ParamsOf(m)[1]) = roots[m.root].starting_time_nanos
          /\ ParamsOf(m)[2] = roots[m.root].starting_time_secs
    /\ \A m1, m2 \in minted : m1.id # m2.id => ParamsOf(m1) # ParamsOf(m2)

\* two calls have returned, the later one first
C4_Witness ==
    \E m1, m2 \in Minted : m1.id < m2.id /\ m2.overtook

SameSecrets(s, t) ==
    /\ s.commitment_seed = t.commitment_seed
    /\ s.funding_key = t.funding_key
    /\ s.revocation_base_key = t.revocation_base_key
    /\ s.payment_key = t.payment_key
    /\ s.delayed_payment_base_key = t.delayed_payment_base_key
    /\ s.htlc_base_key = t.htlc_base_key
    /\ s.local_channel_pubkeys = t.local_channel_pubkeys
    /\ s.key_derivation_params = t.key_derivation_params

DerivedCalls == { derived[i] : i \in 1..Len(derived) }

\* C5: derive_channel_keys called with the key_derivation_params of a signer that
\* get_channel_keys returned, on any KeysManager of the same seed (whatever its
\* starting time, counters and the channel value passed), returns a signer with the
\* same commitment_seed, secret keys, local pubkeys and key_derivation_params.
C5_SecretsFromSeedAndParams ==
    \A d \in DerivedCalls : \A m \in Minted :
        d.params = ParamsOf(m) => IsSome(d.result) /\ SameSecrets(d.result[1], m.result[1])

\* re-derivation on the other instance, which has another starting time and has
\* moved a counter, with another channel value
C5_Witness ==
    \E d \in DerivedCalls : \E m \in Minted :
        /\ d.params = ParamsOf(m)
        /\ d.root # m.root
        /\ d.value # m.value
        /\ d.at = calls
        /\ roots[d.root].starting_time_secs # roots[m.root].starting_time_secs
        /\ roots[d.root].session_child_index # U64Of(0)

\* C6: a derive_channel_keys call leaves every field of the KeysManager as it was,
\* and two calls with the same arguments on the same KeysManager return equal
\* signers, whatever was allocated in between.
C6_DeriveIsPure ==
    /\ [](Len(derived) = 2 => derived[1].result = derived[2].result)
    /\ [][derived' # derived => roots' = roots]_vars

\* the same call repeated after a get_channel_keys call on the same instance
C6_Witness ==
    /\ Len(derived) = 2
    /\ derived[2].at > derived[1].at
    /\ IsSome(derived[2].result)
    /\ roots[derived[1].root].channel_child_index # U64Of(0)

DifferentNonce ==
    \/ roots[1].starting_time_secs # roots[2].starting_time_secs
    \/ roots[1].starting_time_nanos # roots[2].starting_time_nanos

\* C7: of two KeysManagers with one seed and different starting times, no signer of
\* one has the key_derivation_params of a signer of the other; with equal starting
\* times the k-th get_channel_keys, get_onion_rand and get_channel_id of both yield
\* the same key_derivation_params, session key input and channel id input.
C7_RestartNonce ==
    /\ DifferentNonce =>
          \A m1, m2 \in Minted : m1.root # m2.root => ParamsOf(m1) # ParamsOf(m2)
    /\ ~DifferentNonce =>
          /\ \A m1, m2 \in Minted : m1.child_ix = m2.child_ix => ParamsOf(m1) = ParamsOf(m2)
          /\ \A s1, s2 \in sessions : s1.child_ix = s2.child_ix => s1.result = s2.result
          /\ \A c1, c2 \in channel_ids : c1.child_ix = c2.child_ix => c1.result = c2.result

\* both instances have minted their first signer; they differ in nanoseconds only
C7_Witness ==
    /\ roots[1].starting_time_secs = roots[2].starting_time_secs
    /\ roots[1].starting_time_nanos # roots[2].starting_time_nanos
    /\ \E m1, m2 \in Minted : m1.root = 1 /\ m2.root = 2 /\ m1.child_ix = m2.child_ix

\* ============================================================ ChannelKeys
\* Functions of secp256k1, bitcoin and chan_utils that the signing functions call
\* are terms over their arguments.  The chan_utils key derivations return a Result;
\* they fail on the per-commitment point of BadSecret.

\* secp_ctx.sign(&msg, &key)
sign(msg, key) == [ msg |-> msg, key |-> key ]

\* hash_to_message!(SighashComponents::new(&tx).sighash_all(&txin, &script, amount))
sighash_all(tx, txin, script, amount) == <<tx, txin, script, amount>>

\* tx.txid()
txid(tx) == <<"txid", tx>>

\* chan_utils::make_funding_redeemscript
make_funding_redeemscript(a, b) == <<"funding", a, b>>

GoodSecret == [i \in 1..32 |-> 21]
BadSecret == [i \in 1..32 |-> 22]
TweakFails(per_commitment_point) == per_commitment_point = PublicKey_from_secret_key(BadSecret)

\* chan_utils::derive_private_key
derive_private_key(per_commitment_point, base_secret) ==
    IF TweakFails(per_commitment_point) THEN None
    ELSE Some(<<"private", per_commitment_point, base_secret>>)

\* chan_utils::derive_public_key
derive_public_key(per_commitment_point, base_point) ==
    IF TweakFails(per_commitment_point) THEN None
    ELSE Some(<<"public", per_commitment_point, base_point>>)

\* chan_utils::derive_private_revocation_key
derive_private_revocation_key(per_commitment_secret, revocation_base_secret) ==
    IF TweakFails(PublicKey_from_secret_key(per_commitment_secret)) THEN None
    ELSE Some(<<"private revocation", per_commitment_secret, revocation_base_secret>>)

\* chan_utils::derive_public_revocation_key
derive_public_revocation_key(per_commitment_point, revocation_base_point) ==
    IF TweakFails(per_commitment_point) THEN None
    ELSE Some(<<"public revocation", per_commitment_point, revocation_base_point>>)

\* chan_utils::build_htlc_transaction
build_htlc_transaction(commitment_txid, feerate_per_kw, to_self_delay, htlc, a_delayed_payment_key, revocation_key) ==
    <<"htlc tx", commitment_txid, feerate_per_kw, to_self_delay, htlc,
      a_delayed_payment_key, revocation_key>>

\* chan_utils::get_htlc_redeemscript
get_htlc_redeemscript(htlc, keys) == <<"htlc script", htlc, keys>>

\* chan_utils::get_htlc_redeemscript_with_explicit_keys
get_htlc_redeemscript_with_explicit_keys(htlc, a_htlc_key, b_htlc_key, revocation_key) ==
    <<"htlc script", htlc, a_htlc_key, b_htlc_key, revocation_key>>

\* chan_utils::get_revokeable_redeemscript
get_revokeable_redeemscript(revocation_key, to_self_delay, delayed_payment_key) ==
    <<"revokeable script", revocation_key, to_self_delay, delayed_payment_key>>

\* LocalCommitmentTransaction::get_local_sig
get_local_sig(local_commitment_tx, funding_key, funding_redeemscript, channel_value_satoshis) ==
    sign(sighash_all(local_commitment_tx, 0, funding_redeemscript, channel_value_satoshis), funding_key)

\* What a call returns to its caller: Ok(value), Err(()), or nothing (the thread panics)
Ok(value) == [ kind |-> "Ok", value |-> value ]
Err == [ kind |-> "Err" ]
Panic(message) == [ kind |-> "Panic", message |-> message ]
MustSet == "must set remote channel pubkeys before signing"
UnwrapNone == "called Option::unwrap() on a None value"
OutOfBounds == "index out of bounds"

\* a loop that signs for every HTLC, in a commitment output or not
RECURSIVE htlc_sigs_all(_, _, _, _, _, _, _)
htlc_sigs_all(self, commitment_txid, feerate_per_kw, keys, htlcs, to_self_delay, i) ==
    IF i > Len(htlcs) THEN Ok(<<>>)
    ELSE
    LET htlc == htlcs[i]
        rest == htlc_sigs_all(self, commitment_txid, feerate_per_kw, keys, htlcs, to_self_delay, i + 1)
        htlc_tx == build_htlc_transaction(commitment_txid, feerate_per_kw, to_self_delay, htlc,
                                          keys.a_delayed_payment_key, keys.revocation_key)
        htlc_redeemscript == get_htlc_redeemscript(htlc, keys)
        htlc_sighash == sighash_all(htlc_tx, 0, htlc_redeemscript, htlc.amount_msat \div 1000)
        our_htlc_key == derive_private_key(keys.per_commitment_point, self.htlc_base_key)
    IN  IF IsNone(our_htlc_key) \/ rest.kind = "Err" THEN Err
        ELSE Ok(<<sign(htlc_sighash, our_htlc_key[1])>> \o rest.value)

\* the for loop of sign_remote_commitment from htlcs[i] on (htlcs[1] is the first):
\* Ok(htlc_sigs), or Err when derive_private_key fails
RECURSIVE htlc_sigs_from(_, _, _, _, _, _, _)
htlc_sigs_from(self, commitment_txid, feerate_per_kw, keys, htlcs, to_self_delay, i) ==
    IF i > Len(htlcs) THEN Ok(<<>>)
    ELSE
    LET htlc == htlcs[i]
        rest == htlc_sigs_from(self, commitment_txid, feerate_per_kw, keys, htlcs, to_self_delay, i + 1)
    IN  IF IsSome(htlc.transaction_output_index)
        THEN LET htlc_tx == build_htlc_transaction(commitment_txid, feerate_per_kw, to_self_delay, htlc,
                                                   keys.a_delayed_payment_key, keys.revocation_key)
                 htlc_redeemscript == get_htlc_redeemscript(htlc, keys)
                 htlc_sighash == sighash_all(htlc_tx, 0, htlc_redeemscript, htlc.amount_msat \div 1000)
                 our_htlc_key == derive_private_key(keys.per_commitment_point, self.htlc_base_key)
             IN  IF IsNone(our_htlc_key) \/ rest.kind = "Err" THEN Err
                 ELSE Ok(<<sign(htlc_sighash, our_htlc_key[1])>> \o rest.value)
        ELSE rest

\* InMemoryChannelKeys::sign_remote_commitment
\* a sign_remote_commitment that looks up the remote pubkeys before it counts the inputs
sign_remote_commitment_lookup_first(self, feerate_per_kw, commitment_tx, keys, htlcs, to_self_delay) ==
    IF IsNone(self.remote_channel_pubkeys) THEN Panic(MustSet)
    ELSE IF Len(commitment_tx.input) # 1 THEN Err
    ELSE
    LET funding_pubkey == PublicKey_from_secret_key(self.funding_key)
        remote_channel_pubkeys == self.remote_channel_pubkeys[1]
        channel_funding_redeemscript ==
            make_funding_redeemscript(funding_pubkey, remote_channel_pubkeys.funding_pubkey)
        commitment_sighash == sighash_all(commitment_tx, commitment_tx.input[1],
                                          channel_funding_redeemscript, self.channel_value_satoshis)
        commitment_sig == sign(commitment_sighash, self.funding_key)
        commitment_txid == txid(commitment_tx)
        htlc_sigs == htlc_sigs_from(self, commitment_txid, feerate_per_kw, keys, htlcs, to_self_delay, 1)
    IN  IF htlc_sigs.kind = "Err" THEN Err
        ELSE Ok([ sig |-> commitment_sig, htlc_sigs |-> htlc_sigs.value ])

sign_remote_commitment(self, feerate_per_kw, commitment_tx, keys, htlcs, to_self_delay) ==
    IF Len(commitment_tx.input) # 1 THEN Err
    ELSE IF IsNone(self.remote_channel_pubkeys) THEN Panic(MustSet)
    ELSE
    LET funding_pubkey == PublicKey_from_secret_key(self.funding_key)
        remote_channel_pubkeys == self.remote_channel_pubkeys[1]
        channel_funding_redeemscript ==
            make_funding_redeemscript(funding_pubkey, remote_channel_pubkeys.funding_pubkey)
        commitment_sighash == sighash_all(commitment_tx, commitment_tx.input[1],
                                          channel_funding_redeemscript, self.channel_value_satoshis)
        commitment_sig == sign(commitment_sighash, self.funding_key)
        commitment_txid == txid(commitment_tx)
        htlc_sigs == htlc_sigs_from(self, commitment_txid, feerate_per_kw, keys, htlcs, to_self_delay, 1)
    IN  IF htlc_sigs.kind = "Err" THEN Err
        ELSE Ok([ sig |-> commitment_sig, htlc_sigs |-> htlc_sigs.value ])

\* a sign_local_commitment that reports the missing remote pubkeys as Err(())
sign_local_commitment_err(self, local_commitment_tx) ==
    IF IsNone(self.remote_channel_pubkeys) THEN Err
    ELSE Ok(get_local_sig(local_commitment_tx, self.funding_key,
                          make_funding_redeemscript(PublicKey_from_secret_key(self.funding_key),
                                                    self.remote_channel_pubkeys[1].funding_pubkey),
                          self.channel_value_satoshis))

\* InMemoryChannelKeys::sign_local_commitment
sign_local_commitment(self, local_commitment_tx) ==
    IF IsNone(self.remote_channel_pubkeys) THEN Panic(MustSet)
    ELSE
    LET funding_pubkey == PublicKey_from_secret_key(self.funding_key)
        remote_channel_pubkeys == self.remote_channel_pubkeys[1]
        channel_funding_redeemscript ==
            make_funding_redeemscript(funding_pubkey, remote_channel_pubkeys.funding_pubkey)
    IN  Ok(get_local_sig(local_commitment_tx, self.funding_key, channel_funding_redeemscript,
                         self.channel_value_satoshis))

\* InMemoryChannelKeys::sign_local_commitment_htlc_transactions: the body is the call
\* local_commitment_tx.get_htlc_sigs(&self.htlc_base_key, local_csv, secp_ctx), whose
\* result get_htlc_sigs_result is returned as it is
sign_local_commitment_htlc_transactions(self, local_commitment_tx, local_csv, get_htlc_sigs_result) ==
    get_htlc_sigs_result

\* the witness script of sign_justice_transaction: Ok(script), Err or a panic
justice_witness_script(self, per_commitment_point, revocation_pubkey, htlc, on_remote_tx_csv) ==
    IF IsNone(self.remote_channel_pubkeys) THEN Panic(UnwrapNone)
    ELSE IF IsSome(htlc)
    THEN LET remote_htlcpubkey ==
                 derive_public_key(per_commitment_point, self.remote_channel_pubkeys[1].htlc_basepoint)
             local_htlcpubkey ==
                 derive_public_key(per_commitment_point, self.local_channel_pubkeys.htlc_basepoint)
         IN  IF IsNone(remote_htlcpubkey) \/ IsNone(local_htlcpubkey) THEN Err
             ELSE Ok(get_htlc_redeemscript_with_explicit_keys(htlc[1], remote_htlcpubkey[1],
                                                              local_htlcpubkey[1], revocation_pubkey))
    ELSE LET remote_delayedpubkey ==
                 derive_public_key(per_commitment_point,
                                   self.remote_channel_pubkeys[1].delayed_payment_basepoint)
         IN  IF IsNone(remote_delayedpubkey) THEN Err
             ELSE Ok(get_revokeable_redeemscript(revocation_pubkey, on_remote_tx_csv,
                                                 remote_delayedpubkey[1]))

\* InMemoryChannelKeys::sign_justice_transaction; input_ix counts from 0
sign_justice_transaction(self, justice_tx, input_ix, amount, per_commitment_key, htlc, on_remote_tx_csv) ==
    LET revocation_key == derive_private_revocation_key(per_commitment_key, self.revocation_base_key)
        per_commitment_point == PublicKey_from_secret_key(per_commitment_key)
        revocation_pubkey == derive_public_revocation_key(per_commitment_point,
                                                          self.local_channel_pubkeys.revocation_basepoint)
    IN  IF IsNone(revocation_key) THEN Err
        ELSE IF IsNone(revocation_pubkey) THEN Err
        ELSE
        LET witness_script == justice_witness_script(self, per_commitment_point, revocation_pubkey[1],
                                                     htlc, on_remote_tx_csv)
        IN  IF witness_script.kind # "Ok" THEN witness_script
            ELSE IF input_ix >= Len(justice_tx.input) THEN Panic(OutOfBounds)
            ELSE Ok(sign(sighash_all(justice_tx, justice_tx.input[input_ix + 1], witness_script.value, amount),
                         revocation_key[1]))

\* InMemoryChannelKeys::sign_remote_htlc_transaction; input_ix counts from 0
sign_remote_htlc_transaction(self, htlc_tx, input_ix, amount, per_commitment_point, htlc) ==
    LET htlc_key == derive_private_key(per_commitment_point, self.htlc_base_key)
        revocation_pubkey == derive_public_revocation_key(per_commitment_point,
                                                          self.local_channel_pubkeys.revocation_basepoint)
    IN  IF IsNone(htlc_key) THEN Err
        ELSE IF IsNone(revocation_pubkey) THEN Err
        ELSE IF IsNone(self.remote_channel_pubkeys) THEN Panic(UnwrapNone)
        ELSE
        LET remote_htlcpubkey ==
                derive_public_key(per_commitment_point, self.remote_channel_pubkeys[1].htlc_basepoint)
            local_htlcpubkey ==
                derive_public_key(per_commitment_point, self.local_channel_pubkeys.htlc_basepoint)
        IN  IF IsNone(remote_htlcpubkey) \/ IsNone(local_htlcpubkey) THEN Err
            ELSE IF input_ix >= Len(htlc_tx.input) THEN Panic(OutOfBounds)
            ELSE Ok(sign(sighash_all(htlc_tx, htlc_tx.input[input_ix + 1],
                                     get_htlc_redeemscript_with_explicit_keys(
                                         htlc, remote_htlcpubkey[1], local_htlcpubkey[1],
                                         revocation_pubkey[1]),
                                     amount),
                         htlc_key[1]))

\* a sign_closing_transaction that signs without the remote funding pubkey
sign_closing_transaction_unbound(self, closing_tx) ==
    IF Len(closing_tx.input) # 1 THEN Err
    ELSE IF Len(closing_tx.input[1].witness) # 0 THEN Err
    ELSE IF Len(closing_tx.output) > 2 THEN Err
    ELSE
    LET funding_pubkey == PublicKey_from_secret_key(self.funding_key)
    IN  Ok(sign(sighash_all(closing_tx, closing_tx.input[1],
                            make_funding_redeemscript(funding_pubkey, funding_pubkey),
                            self.channel_value_satoshis),
                self.funding_key))

\* a sign_closing_transaction without the limit on the outputs
sign_closing_transaction_any_outputs(self, closing_tx) ==
    IF Len(closing_tx.input) # 1 THEN Err
    ELSE IF Len(closing_tx.input[1].witness) # 0 THEN Err
    ELSE IF IsNone(self.remote_channel_pubkeys) THEN Panic(MustSet)
    ELSE
    LET funding_pubkey == PublicKey_from_secret_key(self.funding_key)
    IN  Ok(sign(sighash_all(closing_tx, closing_tx.input[1],
                            make_funding_redeemscript(funding_pubkey,
                                                      self.remote_channel_pubkeys[1].funding_pubkey),
                            self.channel_value_satoshis),
                self.funding_key))

\* InMemoryChannelKeys::sign_closing_transaction
sign_closing_transaction(self, closing_tx) ==
    IF Len(closing_tx.input) # 1 THEN Err
    ELSE IF Len(closing_tx.input[1].witness) # 0 THEN Err
    ELSE IF Len(closing_tx.output) > 2 THEN Err
    ELSE IF IsNone(self.remote_channel_pubkeys) THEN Panic(MustSet)
    ELSE
    LET remote_channel_pubkeys == self.remote_channel_pubkeys[1]
        funding_pubkey == PublicKey_from_secret_key(self.funding_key)
        channel_funding_redeemscript ==
            make_funding_redeemscript(funding_pubkey, remote_channel_pubkeys.funding_pubkey)
        sighash == sighash_all(closing_tx, closing_tx.input[1], channel_funding_redeemscript,
                               self.channel_value_satoshis)
    IN  Ok(sign(sighash, self.funding_key))

\* InMemoryChannelKeys::sign_channel_announcement
sign_channel_announcement(self, msg) ==
    Ok(sign(<<"announcement", msg>>, self.funding_key))

\* a set_remote_channel_pubkeys without the assert
\* the getters of the trait: commitment_seed, pubkeys, key_derivation_params, and
\* remote_pubkeys, which unwraps the Option
Getters == { "commitment_seed", "pubkeys", "key_derivation_params", "remote_pubkeys" }
observe(self, getter) ==
    IF getter = "commitment_seed" THEN Ok(self.commitment_seed)
    ELSE IF getter = "pubkeys" THEN Ok(self.local_channel_pubkeys)
    ELSE IF getter = "key_derivation_params" THEN Ok(self.key_derivation_params)
    ELSE IF IsNone(self.remote_channel_pubkeys) THEN Panic(UnwrapNone)
    ELSE Ok(self.remote_channel_pubkeys[1])

\* a set_remote_channel_pubkeys that stores the keys in local_channel_pubkeys
set_remote_channel_pubkeys_as_local(self, channel_pubkeys) ==
    IF ~IsNone(self.remote_channel_pubkeys)
    THEN [ outcome |-> Panic("Already set remote channel pubkeys"), self |-> self ]
    ELSE [ outcome |-> Ok(<<>>),
           self |-> [self EXCEPT !.remote_channel_pubkeys = Some(channel_pubkeys),
                                 !.local_channel_pubkeys = channel_pubkeys] ]

set_remote_channel_pubkeys_again(self, channel_pubkeys) ==
    [ outcome |-> Ok(<<>>),
      self |-> [self EXCEPT !.remote_channel_pubkeys = Some(channel_pubkeys)] ]

\* InMemoryChannelKeys::set_remote_channel_pubkeys: what the call returns and what
\* the signer is afterwards
set_remote_channel_pubkeys(self, channel_pubkeys) ==
    IF ~IsNone(self.remote_channel_pubkeys)
    THEN [ outcome |-> Panic("Already set remote channel pubkeys"), self |-> self ]
    ELSE [ outcome |-> Ok(<<>>),
           self |-> [self EXCEPT !.remote_channel_pubkeys = Some(channel_pubkeys)] ]

\* ------------------------------------------------ InMemoryChannelKeys: bytes
\* A reader is the bytes not yet consumed; a read returns Ok([ value, rest ]) or Err.
Reverse(bytes) == [i \in 1..Len(bytes) |-> bytes[Len(bytes) + 1 - i]]
Limb(hi, lo) == hi * 256 + lo
array_to_be64(b) == <<Limb(b[1], b[2]), Limb(b[3], b[4]), Limb(b[5], b[6]), Limb(b[7], b[8])>>
array_to_be32(b) == <<Limb(b[1], b[2]), Limb(b[3], b[4])>>

Read(value, rest) == Ok([ value |-> value, rest |-> rest ])
\* read_exact of n bytes
read_exact(reader, n) ==
    IF Len(reader) < n THEN Err
    ELSE Read(SubSeq(reader, 1, n), SubSeq(reader, n + 1, Len(reader)))

u8_write(v) == <<v>>
u8_read(reader) ==
    LET b == read_exact(reader, 1)
    IN  IF b.kind = "Err" THEN Err ELSE Read(b.value.value[1], b.value.rest)

u16_write(v) == <<v \div 256, v % 256>>
u16_read(reader) ==
    LET b == read_exact(reader, 2)
    IN  IF b.kind = "Err" THEN Err ELSE Read(Limb(b.value.value[1], b.value.value[2]), b.value.rest)

u64_write(v) == be64_to_array(v)
u64_read(reader) ==
    LET b == read_exact(reader, 8)
    IN  IF b.kind = "Err" THEN Err ELSE Read(array_to_be64(b.value.value), b.value.rest)

\* A key is written as one run of bytes: [ len, data ], where data stands for the
\* len bytes of the key.  An integer is written as such a run of its bytes.
Field(len, data) == << [ len |-> len, data |-> data ] >>
read_field(reader, len) ==
    IF reader = <<>> THEN Err
    ELSE IF Head(reader).len # len THEN Err
    ELSE Read(Head(reader).data, Tail(reader))

\* Option<ChannelPublicKeys>: 0, or 1 and the five points of 33 bytes
Option_ChannelPublicKeys_write(o) ==
    IF IsNone(o) THEN Field(1, u8_write(0))
    ELSE Field(1, u8_write(1))
           \o Field(33, o[1].funding_pubkey) \o Field(33, o[1].revocation_basepoint)
           \o Field(33, o[1].payment_point) \o Field(33, o[1].delayed_payment_basepoint)
           \o Field(33, o[1].htlc_basepoint)
Option_ChannelPublicKeys_read(reader) ==
    LET tag == read_field(reader, 1)
    IN  IF tag.kind = "Err" THEN Err
        ELSE IF tag.value.value = u8_write(0) THEN Read(None, tag.value.rest)
        ELSE IF tag.value.value # u8_write(1) THEN Err
        ELSE
        LET funding_pubkey == read_field(tag.value.rest, 33)
        IN  IF funding_pubkey.kind = "Err" THEN Err ELSE
        LET revocation_basepoint == read_field(funding_pubkey.value.rest, 33)
        IN  IF revocation_basepoint.kind = "Err" THEN Err ELSE
        LET payment_point == read_field(revocation_basepoint.value.rest, 33)
        IN  IF payment_point.kind = "Err" THEN Err ELSE
        LET delayed_payment_basepoint == read_field(payment_point.value.rest, 33)
        IN  IF delayed_payment_basepoint.kind = "Err" THEN Err ELSE
        LET htlc_basepoint == read_field(delayed_payment_basepoint.value.rest, 33)
        IN  IF htlc_basepoint.kind = "Err" THEN Err ELSE
            Read(Some([ funding_pubkey            |-> funding_pubkey.value.value,
                        revocation_basepoint      |-> revocation_basepoint.value.value,
                        payment_point             |-> payment_point.value.value,
                        delayed_payment_basepoint |-> delayed_payment_basepoint.value.value,
                        htlc_basepoint            |-> htlc_basepoint.value.value ]),
                 htlc_basepoint.value.rest)

\* a writer that emits payment_key before revocation_base_key
InMemoryChannelKeys_write_payment_first(self) ==
    Field(32, self.funding_key) \o Field(32, self.payment_key)
        \o Field(32, self.revocation_base_key) \o Field(32, self.delayed_payment_base_key)
        \o Field(32, self.htlc_base_key) \o Field(32, self.commitment_seed)
        \o Option_ChannelPublicKeys_write(self.remote_channel_pubkeys)
        \o Field(8, u64_write(self.channel_value_satoshis))
        \o Field(8, u64_write(self.key_derivation_params[1]))
        \o Field(8, u64_write(self.key_derivation_params[2]))

\* impl Writeable for InMemoryChannelKeys
InMemoryChannelKeys_write(self) ==
    Field(32, self.funding_key) \o Field(32, self.revocation_base_key)
        \o Field(32, self.payment_key) \o Field(32, self.delayed_payment_base_key)
        \o Field(32, self.htlc_base_key) \o Field(32, self.commitment_seed)
        \o Option_ChannelPublicKeys_write(self.remote_channel_pubkeys)
        \o Field(8, u64_write(self.channel_value_satoshis))
        \o Field(8, u64_write(self.key_derivation_params[1]))
        \o Field(8, u64_write(self.key_derivation_params[2]))

\* impl Readable for InMemoryChannelKeys
InMemoryChannelKeys_read(reader) ==
    LET funding_key == read_field(reader, 32)
    IN  IF funding_key.kind = "Err" THEN Err ELSE
    LET revocation_base_key == read_field(funding_key.value.rest, 32)
    IN  IF revocation_base_key.kind = "Err" THEN Err ELSE
    LET payment_key == read_field(revocation_base_key.value.rest, 32)
    IN  IF payment_key.kind = "Err" THEN Err ELSE
    LET delayed_payment_base_key == read_field(payment_key.value.rest, 32)
    IN  IF delayed_payment_base_key.kind = "Err" THEN Err ELSE
    LET htlc_base_key == read_field(delayed_payment_base_key.value.rest, 32)
    IN  IF htlc_base_key.kind = "Err" THEN Err ELSE
    LET commitment_seed == read_field(htlc_base_key.value.rest, 32)
    IN  IF commitment_seed.kind = "Err" THEN Err ELSE
    LET remote_channel_pubkeys == Option_ChannelPublicKeys_read(commitment_seed.value.rest)
    IN  IF remote_channel_pubkeys.kind = "Err" THEN Err ELSE
    LET channel_value_satoshis == read_field(remote_channel_pubkeys.value.rest, 8)
    IN  IF channel_value_satoshis.kind = "Err" THEN Err ELSE
    LET local_channel_pubkeys ==
            make_local_keys(funding_key.value.value, revocation_base_key.value.value,
                            payment_key.value.value, delayed_payment_base_key.value.value,
                            htlc_base_key.value.value)
        params_1 == read_field(channel_value_satoshis.value.rest, 8)
    IN  IF params_1.kind = "Err" THEN Err ELSE
    LET params_2 == read_field(params_1.value.rest, 8)
    IN  IF params_2.kind = "Err" THEN Err ELSE
        Ok([ funding_key              |-> funding_key.value.value,
             revocation_base_key      |-> revocation_base_key.value.value,
             payment_key              |-> payment_key.value.value,
             delayed_payment_base_key |-> delayed_payment_base_key.value.value,
             htlc_base_key            |-> htlc_base_key.value.value,
             commitment_seed          |-> commitment_seed.value.value,
             channel_value_satoshis   |-> array_to_be64(channel_value_satoshis.value.value),
             local_channel_pubkeys    |-> local_channel_pubkeys,
             remote_channel_pubkeys   |-> remote_channel_pubkeys.value.value,
             key_derivation_params    |-> <<array_to_be64(params_1.value.value),
                                            array_to_be64(params_2.value.value)>> ])

\* ------------------------------------------------------ ChannelKeys: inputs
RemoteSecrets == { [i \in 1..32 |-> 11], [i \in 1..32 |-> 12] }
RemotePubkeys ==
    { make_local_keys(k, k, k, k, k) : k \in RemoteSecrets }

Witnesses == { <<>>, <<1>> }
\* a transaction of n inputs, the first with witness w, and m outputs
Transaction(n, w, m) ==
    [ input |-> [i \in 1..n |-> [ previous_output |-> i, witness |-> IF i = 1 THEN w ELSE <<>> ]],
      output |-> [j \in 1..m |-> [ value |-> j ]] ]
\* the transactions handed to sign_closing_transaction
Transactions ==
    { Transaction(n, w, m) : n \in 0..MaxInputs, w \in Witnesses, m \in 0..MaxOutputs }
\* the commitment, justice and HTLC transactions: unsigned, of one output
SpendingTransactions == { Transaction(n, <<>>, 1) : n \in 0..MaxInputs }

Htlcs ==
    { [ payment_hash |-> h, amount_msat |-> 2500, transaction_output_index |-> ix ] :
      h \in 1..2, ix \in { None, Some(0) } }
HtlcSlices == UNION { [1..n -> Htlcs] : n \in 0..MaxHtlcs }

PerCommitmentSecrets == { GoodSecret, BadSecret }
PerCommitmentPoints == { PublicKey_from_secret_key(k) : k \in PerCommitmentSecrets }
TxCreationKeys ==
    { [ per_commitment_point |-> pt,
        revocation_key |-> <<"public revocation", pt>>,
        a_delayed_payment_key |-> <<"public", pt>> ] : pt \in PerCommitmentPoints }

LocalCommitmentTxs == { [ local_commitment |-> n ] : n \in 1..2 }

\* the values get_htlc_sigs may return for a commitment of at most one HTLC
HtlcSigsResults(self, local_commitment_tx) ==
    { Err, Ok(<<>>), Ok(<<None>>),
      Ok(<<Some(sign(<<"htlc tx", local_commitment_tx>>, <<"private", self.htlc_base_key>>))>>) }

\* ==================================================== ChannelKeys: SpecSigner
\* One InMemoryChannelKeys as get_channel_keys returns it, and the calls of its owner.
InitSigner ==
    /\ roots = [ r \in {1} |-> KeysManager_new(SeedCount, "bitcoin", FirstNonce.secs, FirstNonce.nanos) ]
    /\ callers = {}
    /\ calls = 0
    /\ minted = {}
    /\ sessions = {}
    /\ channel_ids = {}
    /\ derived = <<>>
    /\ \E v \in ChannelValues : signer = get_channel_keys(roots[1], TRUE, v, U64Of(0))[1]
    /\ local_sigs = [ tx \in LocalCommitmentTxs |-> [ first |-> None, repeated |-> FALSE ] ]
    /\ last = NoLast
    /\ codec = NoCodec
    /\ observed = {}

Fresh(self) == IsNone(self.remote_channel_pubkeys)

\* a call that takes &self: the signer stays as it is.  The owner makes one call
\* at a time and takes its outcome before the next.
Called(op, args, outcome) ==
    /\ last = NoLast
    /\ last' = [ op |-> op, fresh |-> Fresh(signer), args |-> args, outcome |-> outcome ]
    /\ UNCHANGED <<signer, local_sigs, rootVars, codecVars, observed>>

SetRemoteChannelPubkeys(channel_pubkeys) ==
    LET r == set_remote_channel_pubkeys(signer, channel_pubkeys)
    IN  /\ last = NoLast
        /\ signer' = r.self
        /\ last' = [ op |-> "set_remote_channel_pubkeys", fresh |-> Fresh(signer),
                     args |-> [ channel_pubkeys |-> channel_pubkeys,
                                before |-> signer.remote_channel_pubkeys ],
                     outcome |-> r.outcome ]
        /\ UNCHANGED <<local_sigs, rootVars, codecVars, observed>>

SignRemoteCommitment(commitment_tx, keys, htlcs) ==
    Called("sign_remote_commitment",
           [ tx |-> commitment_tx, keys |-> keys, htlcs |-> htlcs ],
           sign_remote_commitment(signer, 253, commitment_tx, keys, htlcs, 144))

\* a sign_local_commitment that signs a transaction once and refuses it afterwards
SignLocalCommitmentOnce(local_commitment_tx) ==
    LET sigs == local_sigs[local_commitment_tx]
        outcome == IF IsSome(sigs.first) THEN Err
                   ELSE sign_local_commitment(signer, local_commitment_tx)
    IN  /\ last = NoLast
        /\ last' = [ op |-> "sign_local_commitment", fresh |-> Fresh(signer),
                     args |-> [ tx |-> local_commitment_tx ], outcome |-> outcome ]
        /\ local_sigs' =
              IF Fresh(signer) THEN local_sigs
              ELSE [local_sigs EXCEPT ![local_commitment_tx] =
                      IF IsNone(sigs.first) THEN [ first |-> Some(outcome), repeated |-> FALSE ]
                      ELSE [ first |-> sigs.first, repeated |-> TRUE ]]
        /\ UNCHANGED <<signer, rootVars, codecVars, observed>>

\* sign_local_commitment takes &self
SignLocalCommitment(local_commitment_tx) ==
    LET outcome == sign_local_commitment(signer, local_commitment_tx)
        sigs == local_sigs[local_commitment_tx]
    IN  /\ last = NoLast
        /\ last' = [ op |-> "sign_local_commitment", fresh |-> Fresh(signer),
                     args |-> [ tx |-> local_commitment_tx ], outcome |-> outcome ]
        /\ local_sigs' =
              IF Fresh(signer) THEN local_sigs
              ELSE [local_sigs EXCEPT ![local_commitment_tx] =
                      IF IsNone(sigs.first) THEN [ first |-> Some(outcome), repeated |-> FALSE ]
                      ELSE [ first |-> sigs.first, repeated |-> TRUE ]]
        /\ UNCHANGED <<signer, rootVars, codecVars, observed>>

SignLocalCommitmentHtlcTransactions(local_commitment_tx, get_htlc_sigs_result) ==
    Called("sign_local_commitment_htlc_transactions", [ tx |-> local_commitment_tx ],
           sign_local_commitment_htlc_transactions(signer, local_commitment_tx, 144, get_htlc_sigs_result))

SignJusticeTransaction(justice_tx, input_ix, per_commitment_key, htlc) ==
    Called("sign_justice_transaction",
           [ tx |-> justice_tx, input_ix |-> input_ix, per_commitment_key |-> per_commitment_key,
             htlc |-> htlc ],
           sign_justice_transaction(signer, justice_tx, input_ix, 1000, per_commitment_key, htlc, 144))

SignRemoteHtlcTransaction(htlc_tx, input_ix, per_commitment_point, htlc) ==
    Called("sign_remote_htlc_transaction",
           [ tx |-> htlc_tx, input_ix |-> input_ix, per_commitment_point |-> per_commitment_point,
             htlc |-> htlc ],
           sign_remote_htlc_transaction(signer, htlc_tx, input_ix, 1000, per_commitment_point, htlc))

SignClosingTransaction(closing_tx) ==
    Called("sign_closing_transaction", [ tx |-> closing_tx ],
           sign_closing_transaction(signer, closing_tx))

SignChannelAnnouncement(msg) ==
    Called("sign_channel_announcement", [ msg |-> msg ],
           sign_channel_announcement(signer, msg))

Observe(getter) ==
    Called("observe", [ getter |-> getter ], observe(signer, getter))

\* the signer is written, and the signer read from these bytes takes its place
WriteAndRead ==
    LET encoded == InMemoryChannelKeys_write(signer)
        decoded == InMemoryChannelKeys_read(encoded)
    IN  /\ last = NoLast
        /\ signer' = IF decoded.kind = "Ok" THEN decoded.value ELSE signer
        /\ last' = [ op |-> "write_read", fresh |-> Fresh(signer),
                     args |-> [ self |-> signer, encoded |-> encoded ],
                     outcome |-> decoded ]
        /\ UNCHANGED <<local_sigs, rootVars, codecVars, observed>>

\* the owner has taken the outcome of its call (after a panic: the signer is still
\* there for the threads that go on)
TakeOutcome ==
    /\ last # NoLast
    /\ last' = NoLast
    /\ UNCHANGED <<signer, local_sigs, rootVars, codecVars, observed>>

NextSigner ==
    \/ \E channel_pubkeys \in RemotePubkeys : SetRemoteChannelPubkeys(channel_pubkeys)
    \/ \E tx \in SpendingTransactions, keys \in TxCreationKeys, htlcs \in HtlcSlices :
          SignRemoteCommitment(tx, keys, htlcs)
    \/ \E tx \in LocalCommitmentTxs : SignLocalCommitment(tx)
    \/ \E tx \in LocalCommitmentTxs :
          \E result \in HtlcSigsResults(signer, tx) : SignLocalCommitmentHtlcTransactions(tx, result)
    \/ \E tx \in SpendingTransactions, input_ix \in 0..MaxInputs, k \in PerCommitmentSecrets,
          htlc \in { None } \cup { Some(h) : h \in Htlcs } :
          SignJusticeTransaction(tx, input_ix, k, htlc)
    \/ \E tx \in SpendingTransactions, input_ix \in 0..MaxInputs, pt \in PerCommitmentPoints, htlc \in Htlcs :
          SignRemoteHtlcTransaction(tx, input_ix, pt, htlc)
    \/ \E tx \in Transactions : SignClosingTransaction(tx)
    \/ \E msg \in 1..2 : SignChannelAnnouncement(msg)
    \/ \E getter \in Getters : Observe(getter)
    \/ WriteAndRead
    \/ TakeOutcome

SpecSigner == InitSigner /\ [][NextSigner]_vars

\* -------------------------------------------------- ChannelKeys: properties
NeedRemotePubkeys ==
    { "sign_remote_commitment", "sign_local_commitment", "sign_justice_transaction",
      "sign_remote_htlc_transaction", "sign_closing_transaction" }

\* the outcome carries at least one signature
ReturnsSignature ==
    /\ last.op \notin { "none", "set_remote_channel_pubkeys", "write_read", "observe" }
    /\ last.outcome.kind = "Ok"
    /\ last.op = "sign_local_commitment_htlc_transactions" =>
          \E i \in 1..Len(last.outcome.value) : IsSome(last.outcome.value[i])

\* the arguments pass every check of the operation other than the one on the remote pubkeys
WellFormed ==
    /\ last.op \in NeedRemotePubkeys
    /\ last.op = "sign_remote_commitment" => Len(last.args.tx.input) = 1
    /\ last.op = "sign_closing_transaction" =>
          /\ Len(last.args.tx.input) = 1
          /\ Len(last.args.tx.input[1].witness) = 0
          /\ Len(last.args.tx.output) <= 2
    /\ last.op = "sign_justice_transaction" =>
          /\ last.args.per_commitment_key = GoodSecret
          /\ last.args.input_ix < Len(last.args.tx.input)
    /\ last.op = "sign_remote_htlc_transaction" =>
          /\ last.args.per_commitment_point = PublicKey_from_secret_key(GoodSecret)
          /\ last.args.input_ix < Len(last.args.tx.input)

\* C1: set_remote_channel_pubkeys on a signer without remote pubkeys stores exactly
\* the given pubkeys; on a signer that has them it panics and the stored pubkeys
\* stay; no step takes remote pubkeys away or replaces them.
C1_OneShotRemotePubkeys ==
    /\ [](last.op = "set_remote_channel_pubkeys" =>
            IF last.fresh
            THEN /\ last.outcome.kind = "Ok"
                 /\ signer.remote_channel_pubkeys = Some(last.args.channel_pubkeys)
            ELSE /\ last.outcome.kind = "Panic"
                 /\ signer.remote_channel_pubkeys = last.args.before)
    /\ [][~Fresh(signer) => signer'.remote_channel_pubkeys = signer.remote_channel_pubkeys]_vars

\* a second call, with other pubkeys, has panicked
C1_Witness ==
    /\ last.op = "set_remote_channel_pubkeys"
    /\ ~last.fresh
    /\ last.outcome.kind = "Panic"
    /\ signer.remote_channel_pubkeys # Some(last.args.channel_pubkeys)

\* C2 as stated: none of the six signing operations returns a signature from a
\* signer without remote pubkeys.
C2_AsStated ==
    (last.op \in NeedRemotePubkeys \cup { "sign_local_commitment_htlc_transactions" }
        /\ ReturnsSignature) => ~last.fresh

\* C2: sign_remote_commitment, sign_local_commitment, sign_justice_transaction,
\* sign_remote_htlc_transaction and sign_closing_transaction return a signature
\* only from a signer that has remote pubkeys; sign_local_commitment_htlc_transactions
\* returns what get_htlc_sigs returns, with or without them.
C2_NoSignatureWhileFresh ==
    /\ (last.op \in NeedRemotePubkeys /\ ReturnsSignature) => ~last.fresh /\ ~Fresh(signer)
    /\ last.op = "sign_local_commitment_htlc_transactions" =>
          last.outcome \in HtlcSigsResults(signer, last.args.tx)

\* a signer without remote pubkeys was asked to sign a closing transaction that
\* passes the structural checks
C2_Witness ==
    /\ last.op = "sign_closing_transaction"
    /\ last.fresh
    /\ WellFormed
    /\ ~ReturnsSignature

\* C3 as stated: a well-formed call on a signer without remote pubkeys returns Err(()).
C3_AsStated ==
    (WellFormed /\ last.fresh) => last.outcome.kind = "Err"

\* C3: a well-formed call of an operation that needs the remote pubkeys, on a signer
\* without them, panics: the caller gets neither a signature nor Err(()); the signer
\* stays as it was.
C3_UnsetRemotePubkeysPanics ==
    /\ []((WellFormed /\ last.fresh) => last.outcome.kind = "Panic")
    /\ [][last'.op \in NeedRemotePubkeys => signer' = signer]_vars

\* a well-formed sign_local_commitment on a signer without remote pubkeys
C3_Witness ==
    /\ last.op = "sign_local_commitment"
    /\ last.fresh
    /\ WellFormed
    /\ Fresh(signer)

\* C8: sign_closing_transaction returns Err(()) for a transaction with other than
\* one input, a witness on input 0 or more than two outputs, and on a signer with
\* remote pubkeys it returns a signature by funding_key for every other transaction;
\* sign_remote_commitment returns Err(()) for a transaction with other than one input.
C8_StructuralGates ==
    /\ last.op = "sign_closing_transaction" =>
          IF \/ Len(last.args.tx.input) # 1
             \/ Len(last.args.tx.input[1].witness) # 0
             \/ Len(last.args.tx.output) > 2
          THEN last.outcome = Err
          ELSE ~last.fresh =>
                  /\ last.outcome.kind = "Ok"
                  /\ last.outcome.value.key = signer.funding_key
    /\ (last.op = "sign_remote_commitment" /\ Len(last.args.tx.input) # 1) => last.outcome = Err

\* a signer with remote pubkeys refused a closing transaction of three outputs
C8_Witness ==
    /\ last.op = "sign_closing_transaction"
    /\ ~last.fresh
    /\ Len(last.args.tx.input) = 1
    /\ Len(last.args.tx.input[1].witness) = 0
    /\ Len(last.args.tx.output) = 3
    /\ last.outcome = Err

IsNonDust(htlc) == IsSome(htlc.transaction_output_index)
\* the HTLC a signature of sign_remote_commitment is for
HtlcOf(sig) == sig.msg[1][5]

\* C9: when sign_remote_commitment returns Ok, it returns one commitment signature
\* and one HTLC signature for each HTLC of the slice that has a
\* transaction_output_index, in the order of the slice, and none for the others.
C9_HtlcSignatures ==
    (last.op = "sign_remote_commitment" /\ last.outcome.kind = "Ok") =>
        LET non_dust == SelectSeq(last.args.htlcs, IsNonDust)
            htlc_sigs == last.outcome.value.htlc_sigs
        IN  /\ last.outcome.value.sig.key = signer.funding_key
            /\ Len(htlc_sigs) = Len(non_dust)
            /\ \A i \in 1..Len(non_dust) : HtlcOf(htlc_sigs[i]) = non_dust[i]

\* a slice of one HTLC without an output followed by one with an output
C9_Witness ==
    /\ last.op = "sign_remote_commitment"
    /\ last.outcome.kind = "Ok"
    /\ Len(last.args.htlcs) = 2
    /\ ~IsNonDust(last.args.htlcs[1])
    /\ IsNonDust(last.args.htlcs[2])
    /\ Len(last.outcome.value.htlc_sigs) = 1

\* ============================================== SpendableOutputDescriptor
\* Bytes are integers 0..255.  The encodings of the fields are those of section 6 of
\* the specification: big-endian integers, 33-byte compressed public keys, and the
\* Bitcoin consensus encoding of outpoint and output.

\* a compressed public key: 0x02 or 0x03 and 32 bytes
PublicKey_write(key) == key
PublicKey_read(reader) ==
    LET b == read_exact(reader, 33)
    IN  IF b.kind = "Err" THEN Err
        ELSE IF b.value.value[1] \notin {2, 3} THEN Err
        ELSE Read(b.value.value, b.value.rest)

\* consensus encoding of an outpoint: txid, then vout in little-endian
OutPoint_write(outpoint) == outpoint.txid \o Reverse(be32_to_array(outpoint.vout))
OutPoint_read(reader) ==
    LET b == read_exact(reader, 36)
    IN  IF b.kind = "Err" THEN Err
        ELSE Read([ txid |-> SubSeq(b.value.value, 1, 32),
                    vout |-> array_to_be32(Reverse(SubSeq(b.value.value, 33, 36))) ],
                  b.value.rest)

\* consensus encoding of a length below 2^16
VarInt_write(n) == IF n < 253 THEN <<n>> ELSE <<253, n % 256, n \div 256>>
VarInt_read(reader) ==
    LET b == u8_read(reader)
    IN  IF b.kind = "Err" THEN Err
        ELSE IF b.value.value < 253 THEN b
        ELSE IF b.value.value > 253 THEN Err
        ELSE LET w == read_exact(b.value.rest, 2)
             IN  IF w.kind = "Err" THEN Err
                 ELSE IF Limb(w.value.value[2], w.value.value[1]) < 253 THEN Err
                 ELSE Read(Limb(w.value.value[2], w.value.value[1]), w.value.rest)

\* consensus encoding of an output: value in little-endian, then the script with its length
TxOut_write(output) ==
    Reverse(be64_to_array(output.value)) \o VarInt_write(Len(output.script_pubkey))
        \o output.script_pubkey
TxOut_read(reader) ==
    LET v == read_exact(reader, 8)
    IN  IF v.kind = "Err" THEN Err
        ELSE
        LET n == VarInt_read(v.value.rest)
        IN  IF n.kind = "Err" THEN Err
            ELSE
            LET script == read_exact(n.value.rest, n.value.value)
            IN  IF script.kind = "Err" THEN Err
                ELSE Read([ value |-> array_to_be64(Reverse(v.value.value)),
                            script_pubkey |-> script.value.value ],
                          script.value.rest)

\* a writer that emits the key_derivation_params of DynamicOutputP2WSH before the output
SpendableOutputDescriptor_write_params_first(self) ==
    IF self.variant = "StaticOutput"
    THEN u8_write(0) \o OutPoint_write(self.outpoint) \o TxOut_write(self.output)
    ELSE IF self.variant = "DynamicOutputP2WSH"
    THEN u8_write(1) \o OutPoint_write(self.outpoint) \o PublicKey_write(self.per_commitment_point)
             \o u16_write(self.to_self_delay)
             \o u64_write(self.key_derivation_params[1]) \o u64_write(self.key_derivation_params[2])
             \o TxOut_write(self.output)
             \o PublicKey_write(self.remote_revocation_pubkey)
    ELSE u8_write(2) \o OutPoint_write(self.outpoint) \o TxOut_write(self.output)
             \o u64_write(self.key_derivation_params[1]) \o u64_write(self.key_derivation_params[2])

\* impl Writeable for SpendableOutputDescriptor
SpendableOutputDescriptor_write(self) ==
    IF self.variant = "StaticOutput"
    THEN u8_write(0) \o OutPoint_write(self.outpoint) \o TxOut_write(self.output)
    ELSE IF self.variant = "DynamicOutputP2WSH"
    THEN u8_write(1) \o OutPoint_write(self.outpoint) \o PublicKey_write(self.per_commitment_point)
             \o u16_write(self.to_self_delay) \o TxOut_write(self.output)
             \o u64_write(self.key_derivation_params[1]) \o u64_write(self.key_derivation_params[2])
             \o PublicKey_write(self.remote_revocation_pubkey)
    ELSE u8_write(2) \o OutPoint_write(self.outpoint) \o TxOut_write(self.output)
             \o u64_write(self.key_derivation_params[1]) \o u64_write(self.key_derivation_params[2])

\* the arm 0u8 of read
read_StaticOutput(reader) ==
    LET outpoint == OutPoint_read(reader)
    IN  IF outpoint.kind = "Err" THEN Err ELSE
    LET output == TxOut_read(outpoint.value.rest)
    IN  IF output.kind = "Err" THEN Err ELSE
        Ok([ variant |-> "StaticOutput", outpoint |-> outpoint.value.value,
             output |-> output.value.value ])

\* the arm 1u8 of read
read_DynamicOutputP2WSH(reader) ==
    LET outpoint == OutPoint_read(reader)
    IN  IF outpoint.kind = "Err" THEN Err ELSE
    LET per_commitment_point == PublicKey_read(outpoint.value.rest)
    IN  IF per_commitment_point.kind = "Err" THEN Err ELSE
    LET to_self_delay == u16_read(per_commitment_point.value.rest)
    IN  IF to_self_delay.kind = "Err" THEN Err ELSE
    LET output == TxOut_read(to_self_delay.value.rest)
    IN  IF output.kind = "Err" THEN Err ELSE
    LET params_1 == u64_read(output.value.rest)
    IN  IF params_1.kind = "Err" THEN Err ELSE
    LET params_2 == u64_read(params_1.value.rest)
    IN  IF params_2.kind = "Err" THEN Err ELSE
    LET remote_revocation_pubkey == PublicKey_read(params_2.value.rest)
    IN  IF remote_revocation_pubkey.kind = "Err" THEN Err ELSE
        Ok([ variant |-> "DynamicOutputP2WSH", outpoint |-> outpoint.value.value,
             per_commitment_point |-> per_commitment_point.value.value,
             to_self_delay |-> to_self_delay.value.value,
             output |-> output.value.value,
             key_derivation_params |-> <<params_1.value.value, params_2.value.value>>,
             remote_revocation_pubkey |-> remote_revocation_pubkey.value.value ])

\* the arm 2u8 of read
read_StaticOutputRemotePayment(reader) ==
    LET outpoint == OutPoint_read(reader)
    IN  IF outpoint.kind = "Err" THEN Err ELSE
    LET output == TxOut_read(outpoint.value.rest)
    IN  IF output.kind = "Err" THEN Err ELSE
    LET params_1 == u64_read(output.value.rest)
    IN  IF params_1.kind = "Err" THEN Err ELSE
    LET params_2 == u64_read(params_1.value.rest)
    IN  IF params_2.kind = "Err" THEN Err ELSE
        Ok([ variant |-> "StaticOutputRemotePayment", outpoint |-> outpoint.value.value,
             output |-> output.value.value,
             key_derivation_params |-> <<params_1.value.value, params_2.value.value>> ])

\* Err(DecodeError::InvalidValue)
InvalidValue == [ kind |-> "Err", error |-> "InvalidValue" ]

\* a reader that takes every tag other than 1 and 2 for StaticOutput
SpendableOutputDescriptor_read_any_tag(reader) ==
    LET tag == u8_read(reader)
    IN  IF tag.kind = "Err" THEN tag
        ELSE IF tag.value.value = 1 THEN read_DynamicOutputP2WSH(tag.value.rest)
        ELSE IF tag.value.value = 2 THEN read_StaticOutputRemotePayment(tag.value.rest)
        ELSE read_StaticOutput(tag.value.rest)

\* impl Readable for SpendableOutputDescriptor: a failed read of the tag or of a field
\* is returned as it is (the ? operator), an unknown tag is InvalidValue
SpendableOutputDescriptor_read(reader) ==
    LET tag == u8_read(reader)
    IN  IF tag.kind = "Err" THEN tag
        ELSE IF tag.value.value = 0 THEN read_StaticOutput(tag.value.rest)
        ELSE IF tag.value.value = 1 THEN read_DynamicOutputP2WSH(tag.value.rest)
        ELSE IF tag.value.value = 2 THEN read_StaticOutputRemotePayment(tag.value.rest)
        ELSE InvalidValue

\* --------------------------------------------------------- descriptors
Txids == { [i \in 1..32 |-> 0], [i \in 1..32 |-> 255 - i] }
Vouts == { U32Of(0), <<1, 2>>, <<LimbMax, LimbMax>> }
OutPoints == { [ txid |-> t, vout |-> v ] : t \in Txids, v \in Vouts }
Scripts == { <<>>, <<0, 20>> \o [i \in 1..20 |-> 100 + i], [i \in 1..253 |-> i % 256] }
TxOuts == { [ value |-> v, script_pubkey |-> sc ] : v \in ChannelValues, sc \in Scripts }
PublicKeys == { <<2>> \o [i \in 1..32 |-> 17], <<3>> \o [i \in 1..32 |-> 200 + i] }
Delays == { 0, 144, 65535 }
DerivationParams == { <<U64Of(0), U64Of(1)>>, ForeignParams }
Descriptors ==
    { [ variant |-> "StaticOutput", outpoint |-> op, output |-> out ] :
        op \in OutPoints, out \in TxOuts }
    \cup
    { [ variant |-> "DynamicOutputP2WSH", outpoint |-> op, per_commitment_point |-> pt,
        to_self_delay |-> d, output |-> out, key_derivation_params |-> kp,
        remote_revocation_pubkey |-> rk ] :
        op \in OutPoints, pt \in PublicKeys, d \in Delays, out \in TxOuts,
        kp \in DerivationParams, rk \in PublicKeys }
    \cup
    { [ variant |-> "StaticOutputRemotePayment", outpoint |-> op, output |-> out,
        key_derivation_params |-> kp ] :
        op \in OutPoints, out \in TxOuts, kp \in DerivationParams }

\* ================================================================ SpecCodec
\* A descriptor is written, the bytes are read back, and what was read is written again.
InitCodec ==
    /\ roots = [ r \in {1} |-> KeysManager_new(SeedCount, "bitcoin", FirstNonce.secs, FirstNonce.nanos) ]
    /\ callers = {}
    /\ calls = 0
    /\ minted = {}
    /\ sessions = {}
    /\ channel_ids = {}
    /\ derived = <<>>
    /\ signer = NoSigner
    /\ local_sigs = NoSigs
    /\ last = NoLast
    /\ \E x \in Descriptors : codec = [ step |-> "new", x |-> x ]
    /\ observed = {}

Write ==
    /\ codec.step = "new"
    /\ codec' = [ step |-> "written", x |-> codec.x,
                  encoded |-> SpendableOutputDescriptor_write(codec.x) ]
    /\ UNCHANGED <<rootVars, signerVars, observed>>

ReadBack ==
    /\ codec.step = "written"
    /\ codec' = [ step |-> "read", x |-> codec.x, encoded |-> codec.encoded,
                  decoded |-> SpendableOutputDescriptor_read(codec.encoded) ]
    /\ UNCHANGED <<rootVars, signerVars, observed>>

WriteAgain ==
    /\ codec.step = "read"
    /\ codec.decoded.kind = "Ok"
    /\ codec' = [ step |-> "rewritten", x |-> codec.x, encoded |-> codec.encoded,
                  decoded |-> codec.decoded,
                  reencoded |-> SpendableOutputDescriptor_write(codec.decoded.value) ]
    /\ UNCHANGED <<rootVars, signerVars, observed>>

\* tag bytes of no variant
UnknownTags == { 3, 4, 128, 255 }
\* a first byte of no compressed public key
BadKeyByte == 4

\* the bytes written, cut short after n bytes
Truncated(bytes, n) == SubSeq(bytes, 1, n)
\* the bytes written, with another byte at position i
WithByte(bytes, i, b) == [ bytes EXCEPT ![i] = b ]

\* what a reader may be given in place of the bytes written
Damaged(bytes) ==
    { [ how |-> "truncated", bytes |-> Truncated(bytes, n) ] : n \in 0..(Len(bytes) - 1) }
    \cup { [ how |-> "tag", bytes |-> WithByte(bytes, 1, t) ] : t \in UnknownTags }
    \cup { [ how |-> "key", bytes |-> WithByte(bytes, 38, BadKeyByte) ] }

\* read is given bytes that no write produced
ReadDamaged ==
    /\ codec.step = "written"
    /\ \E d \in Damaged(codec.encoded) :
          codec' = [ step |-> "damaged", x |-> codec.x, how |-> d.how, bytes |-> d.bytes,
                     decoded |-> SpendableOutputDescriptor_read(d.bytes) ]
    /\ UNCHANGED <<rootVars, signerVars, observed>>

NextCodec == Write \/ ReadBack \/ WriteAgain \/ ReadDamaged

SpecCodec == InitCodec /\ [][NextCodec]_vars

TagOf(x) ==
    IF x.variant = "StaticOutput" THEN 0
    ELSE IF x.variant = "DynamicOutputP2WSH" THEN 1 ELSE 2

\* the bytes of DynamicOutputP2WSH after the tag, field by field
Variant1Layout(x, bytes) ==
    LET out == TxOut_write(x.output)
        n == Len(out)
    IN  /\ Len(bytes) = 1 + 36 + 33 + 2 + n + 8 + 8 + 33
        /\ SubSeq(bytes, 2, 37) = OutPoint_write(x.outpoint)
        /\ SubSeq(bytes, 38, 70) = x.per_commitment_point
        /\ SubSeq(bytes, 71, 72) = u16_write(x.to_self_delay)
        /\ SubSeq(bytes, 73, 72 + n) = out
        /\ SubSeq(bytes, 73 + n, 80 + n) = u64_write(x.key_derivation_params[1])
        /\ SubSeq(bytes, 81 + n, 88 + n) = u64_write(x.key_derivation_params[2])
        /\ SubSeq(bytes, 89 + n, 121 + n) = x.remote_revocation_pubkey

\* C10: for a descriptor x of any of the three variants, the first byte written is
\* the tag 0, 1 or 2 of its variant, DynamicOutputP2WSH lays out outpoint,
\* per_commitment_point, to_self_delay, output, params_1, params_2,
\* remote_revocation_pubkey in this order, read(write(x)) = Ok(x), and writing what
\* was read gives the same bytes.
C10_DescriptorRoundTrip ==
    /\ codec.step \in { "written", "read", "rewritten" } =>
          /\ codec.encoded[1] = TagOf(codec.x)
          /\ codec.x.variant = "DynamicOutputP2WSH" => Variant1Layout(codec.x, codec.encoded)
    /\ codec.step \in { "read", "rewritten" } => codec.decoded = Ok(codec.x)
    /\ codec.step = "rewritten" => codec.reencoded = codec.encoded

\* a DynamicOutputP2WSH with to_self_delay 144 and a script longer than 252 bytes
\* went through write, read and write
C10_Witness ==
    /\ codec.step = "rewritten"
    /\ codec.x.variant = "DynamicOutputP2WSH"
    /\ codec.x.to_self_delay = 144
    /\ Len(codec.x.output.script_pubkey) = 253
    /\ codec.decoded.kind = "Ok"

\* C11: read of bytes whose first byte is not 0, 1 or 2 returns
\* Err(DecodeError::InvalidValue); read of an encoding cut short anywhere, and read of
\* a DynamicOutputP2WSH encoding whose per_commitment_point is no public key, return
\* an error; an error carries no descriptor, in whole or in part.
C11_DecodeErrors ==
    codec.step = "damaged" =>
        /\ (codec.bytes # <<>> /\ codec.bytes[1] \notin {0, 1, 2}) => codec.decoded = InvalidValue
        /\ codec.how = "truncated" => codec.decoded.kind = "Err"
        /\ (codec.how = "key" /\ codec.x.variant = "DynamicOutputP2WSH") =>
              codec.decoded.kind = "Err"
        /\ codec.decoded.kind = "Err" => DOMAIN codec.decoded \subseteq { "kind", "error" }

\* read was given an encoding with the tag 255, and one cut short inside a field
C11_Witness ==
    /\ codec.step = "damaged"
    /\ codec.decoded.kind = "Err"
    /\ \/ codec.how = "tag" /\ codec.bytes[1] = 255
       \/ codec.how = "truncated" /\ Len(codec.bytes) = 40 /\ codec.x.variant = "DynamicOutputP2WSH"

\* the five secrets, the seed, the value and the params of two signers are equal
SameStored(s, t) ==
    /\ SameSecrets(s, t)
    /\ s.channel_value_satoshis = t.channel_value_satoshis
    /\ s.key_derivation_params = t.key_derivation_params

\* C12: read(write(x)) = Ok(x) for a signer x with or without remote pubkeys: the five
\* secrets, commitment_seed, channel_value_satoshis and key_derivation_params are
\* those of x, remote_channel_pubkeys is None when it was None and the same Some when
\* it was Some, and local_channel_pubkeys, made again from the secrets read, are those of x.
C12_SignerRoundTrip ==
    last.op = "write_read" =>
        /\ last.outcome.kind = "Ok"
        /\ SameStored(last.outcome.value, last.args.self)
        /\ last.outcome.value.remote_channel_pubkeys = last.args.self.remote_channel_pubkeys
        /\ Fresh(last.outcome.value) = last.fresh
        /\ last.outcome.value.local_channel_pubkeys = last.args.self.local_channel_pubkeys
        /\ last.outcome.value = last.args.self
        /\ signer = last.args.self

\* a signer with remote pubkeys was written in 15 fields and read
C12_Witness ==
    /\ last.op = "write_read"
    /\ ~last.fresh
    /\ IsSome(last.outcome.value.remote_channel_pubkeys)
    /\ Len(last.args.encoded) = 15

\* a signer without remote pubkeys was written and read
C12_WitnessFresh ==
    /\ last.op = "write_read"
    /\ last.fresh
    /\ Len(last.args.encoded) = 10

\* x < y for two words of 64 bits
U64Less(x, y) ==
    \E i \in 1..4 : x[i] < y[i] /\ \A j \in 1..(i - 1) : x[j] = y[j]

\* y = x + 1, without wrap-around
IsNext(x, y) ==
    \E i \in 1..4 :
        /\ y[i] = x[i] + 1
        /\ \A j \in 1..(i - 1) : y[j] = x[j]
        /\ \A j \in (i + 1)..4 : x[j] = LimbMax /\ y[j] = 0

CounterOps == { "get_channel_keys", "get_onion_rand", "get_channel_id" }
\* the counter an operation allocates from
CounterOf(self, op) ==
    IF op = "get_channel_keys" THEN self.channel_child_index
    ELSE IF op = "get_onion_rand" THEN self.session_child_index
    ELSE self.channel_id_child_index
\* the calls of an operation that have made their fetch_add: [ id, child_ix ]
Handed(op) ==
    { [ id |-> c.id, child_ix |-> c.child_ix ] : c \in { d \in callers : d.op = op } }
    \cup { [ id |-> m.id, child_ix |-> m.child_ix ] :
             m \in IF op = "get_channel_keys" THEN minted
                   ELSE IF op = "get_onion_rand" THEN sessions ELSE channel_ids }

\* C13: each of channel_child_index, session_child_index and channel_id_child_index
\* is 0 before the first call and equals the number of calls that have allocated
\* from it; every step leaves a counter as it is or adds exactly 1 to it; under any
\* interleaving the values handed to the callers of one operation are pairwise
\* distinct and below the counter.
C13_MonotonicCounters ==
    /\ [](\A op \in CounterOps :
            /\ CounterOf(roots[1], op) = U64Of(Cardinality(Handed(op)))
            /\ \A h \in Handed(op) : U64Less(h.child_ix, CounterOf(roots[1], op))
            /\ \A h1, h2 \in Handed(op) : h1.id # h2.id => h1.child_ix # h2.child_ix)
    /\ [][\A op \in CounterOps :
            \/ CounterOf(roots[1], op)' = CounterOf(roots[1], op)
            \/ IsNext(CounterOf(roots[1], op), CounterOf(roots[1], op)')]_vars

\* two calls of get_channel_keys are between their fetch_add and their return, after
\* a call of another operation
C13_Witness ==
    /\ Cardinality({ c \in callers : c.op = "get_channel_keys" }) = 2
    /\ roots[1].channel_child_index = U64Of(2)
    /\ Cardinality(Handed("get_onion_rand")) + Cardinality(Handed("get_channel_id")) = 1

\* ============================================= late counters: SpecExhaust
\* One KeysManager whose counters go beyond the range of the hardened child indexes.
\* 2^31 - 1 is the last index from_hardened_idx accepts, 2^31 the first it refuses,
\* and 2^32 the first counter value that `as u32` and `<< 32` cut down to 0.
LastHardened == <<0, 0, 32767, LimbMax>>
FirstRefused == <<0, 0, 32768, 0>>
FirstTruncated == <<0, 1, 0, 0>>
Checkpoints == { LastHardened, FirstRefused, FirstTruncated }

\* a params_1 whose high 32 bits are 0x80000000, with some params_2
ExhaustedParams == << <<32768, 0, 0, 7>>, U64Of(1) >>

\* Calls of one operation, as many as take its counter to target; each does its
\* fetch_add, whether it then returns or panics.  Their results are not kept.
CallsUpTo(r, op, target) ==
    /\ U64Less(CounterOf(roots[r], op), target)
    /\ roots' = [roots EXCEPT ![r] =
                    IF op = "get_channel_keys" THEN [@ EXCEPT !.channel_child_index = target]
                    ELSE IF op = "get_onion_rand" THEN [@ EXCEPT !.session_child_index = target]
                    ELSE [@ EXCEPT !.channel_id_child_index = target]]
    /\ UNCHANGED <<callers, calls, minted, sessions, channel_ids, derived, signerVars, codecVars, observed>>

NextExhaust ==
    \/ GetChannelKeys(1, TRUE, FirstValue)
    \/ GetOnionRand(1)
    \/ GetChannelId(1)
    \/ \E op \in CounterOps, target \in Checkpoints : CallsUpTo(1, op, target)
    \/ \E params \in KnownParams \cup { ExhaustedParams } : DeriveChannelKeys(1, FirstValue, params)

SpecExhaust == Init /\ [][NextExhaust]_vars

\* the value is not a hardened child index: it is 2^31 or more
BeyondHardened(child_ix) == ~U64Less(child_ix, FirstRefused)

\* C14 as stated: a get_channel_keys, get_onion_rand or get_channel_id call that
\* read a counter value outside the hardened child index range panics and returns
\* nothing, and so does derive_channel_keys for a params_1 whose high 32 bits are
\* outside that range.
C14_AsStated ==
    /\ \A m \in minted : BeyondHardened(m.child_ix) => IsNone(m.result)
    /\ \A m \in sessions : BeyondHardened(m.child_ix) => IsNone(m.result)
    /\ \A m \in channel_ids : BeyondHardened(m.child_ix) => IsNone(m.result)
    /\ \A i \in 1..Len(derived) :
          BeyondHardened(U64Shr32(derived[i].params[1])) => IsNone(derived[i].result)

\* what the code does: the call panics when bit 31 of the low 32 bits of the counter
\* value is set, and returns a result otherwise, whatever the bits above
Bit31(child_ix) == child_ix[3] >= 32768
C14_PanicsOnBit31 ==
    /\ \A m \in minted : Bit31(m.child_ix) <=> IsNone(m.result)
    /\ \A m \in sessions : Bit31(m.child_ix) <=> IsNone(m.result)
    /\ \A m \in channel_ids : Bit31(m.child_ix) <=> IsNone(m.result)
    /\ \A i \in 1..Len(derived) :
          Bit31(U64Shr32(derived[i].params[1])) <=> IsNone(derived[i].result)

\* a call of each of the three operations read 2^31 and panicked, and
\* derive_channel_keys panicked on the high bits 0x80000000
C14_Witness ==
    /\ \E m \in minted : m.child_ix = FirstRefused /\ IsNone(m.result)
    /\ \E m \in sessions : m.child_ix = FirstRefused /\ IsNone(m.result)
    /\ derived # <<>> /\ derived[1].params = ExhaustedParams /\ IsNone(derived[1].result)

\* C20 as stated: on one KeysManager, whatever the number of calls and the panics
\* among them, two get_channel_keys calls that returned a signer used different
\* child indexes and gave different key_derivation_params, and two get_onion_rand
\* calls, and two get_channel_id calls, that returned used different child indexes.
C20_AsStated ==
    /\ \A m1, m2 \in Minted :
          m1.child_ix # m2.child_ix =>
              /\ chan_id_of(ParamsOf(m1)[1]) # chan_id_of(ParamsOf(m2)[1])
              /\ ParamsOf(m1) # ParamsOf(m2)
    /\ \A m1, m2 \in { m \in sessions : IsSome(m.result) } :
          m1.child_ix # m2.child_ix => AsU32(m1.child_ix) # AsU32(m2.child_ix)
    /\ \A m1, m2 \in { m \in channel_ids : IsSome(m.result) } :
          m1.child_ix # m2.child_ix => AsU32(m1.child_ix) # AsU32(m2.child_ix)

\* the call that read 0 and the call that read 2^32 from session_child_index returned
\* the same session key
C20_SameSessionKey ==
    \E m1, m2 \in sessions :
        /\ m1.child_ix = U64Of(0)
        /\ m2.child_ix = FirstTruncated
        /\ IsSome(m1.result)
        /\ m1.result = m2.result

\* the call that read 0 and the call that read 2^32 from channel_child_index returned
\* signers with the same secrets and key_derivation_params
C20_SameSigner ==
    \E m1, m2 \in Minted :
        /\ m1.child_ix = U64Of(0)
        /\ m2.child_ix = FirstTruncated
        /\ m1.result = m2.result

\* C15: on a signer with remote pubkeys every sign_local_commitment call for a
\* transaction, the first and each later one, returns Ok with the signature the first
\* such call returned, whatever calls were made in between and however many before
\* it; and a sign_local_commitment call leaves every field of the signer as it was.
C15_SignLocalCommitmentIdempotent ==
    /\ []((last.op = "sign_local_commitment" /\ ~last.fresh) =>
            /\ last.outcome.kind = "Ok"
            /\ local_sigs[last.args.tx].first = Some(last.outcome))
    /\ [][last'.op = "sign_local_commitment" => signer' = signer]_vars

\* a sign_local_commitment call for a transaction signed before has returned Ok
C15_Witness ==
    /\ last.op = "sign_local_commitment"
    /\ ~last.fresh
    /\ local_sigs[last.args.tx].repeated
    /\ last.outcome.kind = "Ok"

\* C16: in every state the five secrets, commitment_seed, local_channel_pubkeys,
\* channel_value_satoshis and key_derivation_params of the signer are those it was
\* created with; no getter and no signing operation, returning Ok, Err or panicking,
\* changes remote_channel_pubkeys; set_remote_channel_pubkeys changes no other field.
C16_SignerImmutable ==
    /\ [](signer # NoSigner =>
            SameStored(signer, get_channel_keys(roots[1], TRUE, signer.channel_value_satoshis,
                                                U64Of(0))[1]))
    /\ [][/\ SameStored(signer', signer)
          /\ last'.op # "set_remote_channel_pubkeys" =>
                signer'.remote_channel_pubkeys = signer.remote_channel_pubkeys]_vars

\* after set_remote_channel_pubkeys, a signing operation has failed on the signer
C16_Witness ==
    /\ ~Fresh(signer)
    /\ last.op \in { "sign_closing_transaction", "sign_justice_transaction" }
    /\ last.outcome = Err

\* the signer derive_channel_keys returns when the child of channel_master_key at the
\* hardened index chan_id is mixed into the seed
SeedOfIndex(self, chan_id, params_1, params_2) ==
    LET child_privkey == ckd_priv(self.channel_master_key, from_hardened_idx(chan_id)[1])
        seed == Sha256_from_engine(input(unique_start_of(self, params_1, params_2), child_privkey))
    IN  Sha256_from_engine(input(input(Sha256_engine, seed), LabelCommitmentSeed))

\* C17 as stated: for params_1 = 0x00000001_DEADBEEF and params_2 = 0x1234567890ABCDEF
\* the chan_id is 0, the child key is the one at the hardened index 0, and the funding
\* pubkey of the signer is the public key of its funding_key.
C17_AsStated ==
    \A i \in 1..Len(derived) :
        derived[i].params = ForeignParams =>
            /\ chan_id_of(derived[i].params[1]) = U32Of(0)
            /\ IsSome(derived[i].result)
            /\ derived[i].result[1].commitment_seed =
                   SeedOfIndex(roots[derived[i].root], U32Of(0), ForeignParams[1], ForeignParams[2])
            /\ derived[i].result[1].local_channel_pubkeys.funding_pubkey =
                   PublicKey_from_secret_key(derived[i].result[1].funding_key)

\* C17: for params_1 = 0x00000001_DEADBEEF and params_2 = 0x1234567890ABCDEF the chan_id
\* is 1 (the high 32 bits of params_1), the child key is the one at the hardened index
\* 1 under channel_master_key, and the funding pubkey of the signer returned is the
\* public key of its funding_key.
C17_ChanIdIsHighWord ==
    \A i \in 1..Len(derived) :
        derived[i].params = ForeignParams =>
            /\ chan_id_of(derived[i].params[1]) = U32Of(1)
            /\ IsSome(derived[i].result)
            /\ derived[i].result[1].commitment_seed =
                   SeedOfIndex(roots[derived[i].root], U32Of(1), ForeignParams[1], ForeignParams[2])
            /\ derived[i].result[1].local_channel_pubkeys.funding_pubkey =
                   PublicKey_from_secret_key(derived[i].result[1].funding_key)

\* derive_channel_keys was called with these parameters on the KeysManager of the
\* seed 0x01..0x20 and returned a signer
C17_Witness ==
    /\ derived # <<>>
    /\ derived[1].params = ForeignParams
    /\ derived[1].root = 1
    /\ roots[1].seed = [i \in 1..32 |-> i]
    /\ IsSome(derived[1].result)

\* the calls made on root r, without the inbound flags: which counter value and
\* channel value each get_channel_keys call had, and how many calls of the others
CallsOn(r) ==
    [ keys |-> { <<m.child_ix, m.value>> : m \in { n \in minted : n.root = r } },
      rand |-> Cardinality({ m \in sessions : m.root = r }),
      id   |-> Cardinality({ m \in channel_ids : m.root = r }) ]

\* C18: for two KeysManagers of one seed and one starting time, a get_channel_keys
\* call on one and a get_channel_keys call on the other that read the same counter
\* value and have the same channel value return equal signers, whether or not their
\* inbound flags are the same; and when the same calls but for the inbound flags
\* were made on both, the two KeysManagers are in the same state.
C18_InboundIgnored ==
    ~DifferentNonce =>
        /\ \A m1, m2 \in minted :
              (m1.root # m2.root /\ m1.child_ix = m2.child_ix /\ m1.value = m2.value) =>
                  m1.result = m2.result
        /\ CallsOn(1) = CallsOn(2) => roots[1] = roots[2]

\* get_channel_keys(true, v) on one and get_channel_keys(false, v) on the other, both
\* reading the counter value 0
C18_Witness ==
    /\ ~DifferentNonce
    /\ \E m1, m2 \in minted :
          /\ m1.root = 1 /\ m2.root = 2
          /\ m1.inbound /\ ~m2.inbound
          /\ m1.child_ix = U64Of(0) /\ m2.child_ix = U64Of(0)
          /\ m1.value = m2.value
          /\ IsSome(m1.result)
    /\ roots[1] = roots[2]

\* the transaction fails a check sign_closing_transaction makes on its shape
ClosingGateFails(tx) ==
    \/ Len(tx.input) # 1
    \/ Len(tx.input[1].witness) # 0
    \/ Len(tx.output) > 2

\* C19: on a signer without remote pubkeys, sign_remote_commitment for a transaction
\* with other than one input, and sign_closing_transaction for a transaction with
\* other than one input, a witness on its input or more than two outputs, return
\* Err(()) and do not panic; the panic for the missing remote pubkeys comes only for
\* a transaction that passes these checks.
C19_GatesBeforeLookup ==
    /\ (last.op = "sign_remote_commitment" /\ last.fresh) =>
          IF Len(last.args.tx.input) # 1 THEN last.outcome = Err
          ELSE last.outcome = Panic(MustSet)
    /\ (last.op = "sign_closing_transaction" /\ last.fresh) =>
          IF ClosingGateFails(last.args.tx) THEN last.outcome = Err
          ELSE last.outcome = Panic(MustSet)

\* a signer without remote pubkeys returned Err(()) for a commitment transaction of
\* two inputs
C19_Witness ==
    /\ last.op = "sign_remote_commitment"
    /\ last.fresh
    /\ Len(last.args.tx.input) = 2
    /\ last.outcome = Err

\* a signer without remote pubkeys returned Err(()) for a closing transaction of one
\* input and three outputs
C19_WitnessClosing ==
    /\ last.op = "sign_closing_transaction"
    /\ last.fresh
    /\ Len(last.args.tx.input) = 1
    /\ Len(last.args.tx.output) = 3
    /\ last.outcome = Err

\* ============================================= independence of the counters
\* the KeysManager as KeysManager::new returned it
AtConstruction == KeysManager_new(SeedCount, "bitcoin", FirstNonce.secs, FirstNonce.nanos)

\* the calls of an operation that made their fetch_add before the call h
EarlierCalls(op, h) == { g \in Handed(op) : g.id < h.id }

\* C21: the three counters are independent: a step changes channel_child_index only
\* if it is the fetch_add of a get_channel_keys call, session_child_index only if it
\* is that of a get_onion_rand call and channel_id_child_index only if it is that of
\* a get_channel_id call; no step changes another field of the KeysManager, and a
\* call of get_node_secret, get_destination_script or get_shutdown_pubkey changes
\* none and returns the value computed at construction; hence the value a call reads
\* from its counter is the number of earlier calls of the same operation, and the
\* key_derivation_params of the signers of get_channel_keys are that number in the
\* high 32 bits of params_1, starting_time_nanos in the low 32 bits and
\* starting_time_secs as params_2, whatever other calls came in between.
C21_IndependentCounters ==
    /\ [](/\ \A o \in observed :
                o.result = IF o.getter = "get_node_secret" THEN <<AtConstruction.node_secret>>
                           ELSE IF o.getter = "get_destination_script"
                           THEN <<AtConstruction.destination_script>>
                           ELSE <<AtConstruction.shutdown_pubkey>>
          /\ \A op \in CounterOps : \A h \in Handed(op) :
                h.child_ix = U64Of(Cardinality(EarlierCalls(op, h)))
          /\ \A m \in Minted :
                LET rank == U64Of(Cardinality(EarlierCalls("get_channel_keys", m))) IN
                ParamsOf(m) = << <<rank[3], rank[4], FirstNonce.nanos[1], FirstNonce.nanos[2]>>,
                                 FirstNonce.secs >>)
    /\ [][\A r \in DOMAIN roots :
            /\ roots'[r] = [roots[r] EXCEPT !.channel_child_index = roots'[r].channel_child_index,
                                            !.session_child_index = roots'[r].session_child_index,
                                            !.channel_id_child_index = roots'[r].channel_id_child_index]
            /\ \A op \in CounterOps :
                  CounterOf(roots[r], op)' # CounterOf(roots[r], op) =>
                      /\ \E c \in callers' \ callers : c.op = op /\ c.root = r
                      /\ \A other \in CounterOps \ {op} :
                            CounterOf(roots[r], other)' = CounterOf(roots[r], other)
            /\ observed' # observed => roots' = roots]_vars

\* a get_channel_keys call that came after a call of get_onion_rand or get_channel_id
\* and after a call of one of the three getters returned a signer with 0 in the high
\* 32 bits of params_1
C21_Witness ==
    \E m \in Minted :
        /\ m.child_ix = U64Of(0)
        /\ \E h \in Handed("get_onion_rand") \cup Handed("get_channel_id") : h.id < m.id
        /\ \E o \in observed : o.id < m.id
        /\ U64Shr32(ParamsOf(m)[1]) = U64Of(0)

====
